---- MODULE Spec2Model ----
(***************************************************************************)
(* The link crawl of server/api/scrape-links.post.ts: one request handled  *)
(* by defineEventHandler, from the validation of body.urls to the          *)
(* {results, stats} response.  The helpers imported from                   *)
(* ../utils/link-analyzer (normalizeUrl, extractLinks, isInternalLink,     *)
(* getRedirectChain, formatRedirectChain) are modelled from the            *)
(* specification's sections 4.1-4.3.                                       *)
(***************************************************************************)
EXTENDS Integers, Sequences, FiniteSets, TLC

VARIABLES
    body,         \* the request body (ScrapeLinksRequest)
    pc,           \* the handler's position
    results,      \* results: LinkResult[]
    visited,      \* visited: Set<string>
    queue,        \* queue: Array<{url, depth}>
    baseDomains,  \* baseDomains: Set<hostname>
    item,         \* the item taken by queue.shift()
    links,        \* links of the page being processed (extractLinks)
    idx,          \* position of the for-of loop in links
    response,     \* what the handler answered
    enqueued,     \* history: every item ever pushed onto queue, in order
    fetched,      \* history: every item whose page fetch was issued, in order
    resolved,     \* history: number of getRedirectChain calls
    lastStep,     \* history: what the last step of the loop did
    isRunning,    \* pages/index.vue: isRunning of the page that sent the request
    web,          \* what the network answers to fetch and to getRedirectChain
    self,         \* the invocation of the handler that is running
    peers,        \* the suspended invocations of the handler, each with its state
    resolver,     \* getRedirectChain at work on one link, hop by hop
    reader,       \* api/read-file: one request and what the handler did with it
    page,         \* pages/index.vue: the refs of the main page and its scrape runs
    audit,        \* the SEO audit component: its refs and its runAudit calls
    shots,        \* Screenshots.vue, ImageScraper.vue: the refs and the run of one component
    listing       \* api/get-output-dir: a directory tree and the listing made of it

vars == <<body, pc, results, visited, queue, baseDomains, item, links, idx,
          response, enqueued, fetched, resolved, lastStep, isRunning,
          web, self, peers, resolver, reader, page, audit, shots, listing>>

\* the components modelled on their own
uiVars == <<page, audit, shots, listing>>

(***************************************************************************)
(* Bounds of the model.                                                    *)
(***************************************************************************)
MaxLinks    == 2    \* most anchors on one page
MaxUrlsCap  == 2    \* largest body.maxUrls
MaxDepthCap == 1    \* largest body.maxDepth

(***************************************************************************)
(* URLs.  A raw URL string is a record: valid says whether the URL parser  *)
(* accepts it, host = "" marks a relative reference, hash is the fragment. *)
(***************************************************************************)
Null == [valid |-> FALSE, host |-> "", path |-> "", hash |-> ""]

Url(h, p, f) == [valid |-> TRUE, host |-> h, path |-> p, hash |-> f]

\* the arrays a caller may put into body.urls: no seed, one seed, a string
\* that does not parse, seeds of two hosts with one of them given twice up
\* to the fragment, two pages of one host
SeedLists ==
    { <<>>,
      <<Url("a.test", "/", "")>>,
      <<Null>>,
      <<Null, Url("b.test", "/", "")>>,
      <<Url("a.test", "/", ""), Url("a.test", "/b", "")>>,
      <<Url("a.test", "/", "#top"), Url("b.test", "/", ""), Url("a.test", "/", "")>> }

NoError == "<undefined>"

\* href as a string, as URL.href prints it
Href(u) == "https://" \o u.host \o u.path \o u.hash

(***************************************************************************)
(* link-analyzer: normalizeUrl(url, baseUrl?) -- resolve against the base, *)
(* drop the fragment, null when the string does not parse.                 *)
(***************************************************************************)
normalizeUrl(url, baseUrl) ==
    IF ~url.valid THEN Null
    ELSE IF url.host = ""
         THEN IF baseUrl.valid
              THEN Url(baseUrl.host, url.path, "")
              ELSE Null
         ELSE Url(url.host, url.path, "")

\* new URL(url).hostname
hostname(url) == url.host

\* mutant: every link counts as internal
isInternalLinkAlways(targetUrl, baseUrl) == TRUE

\* link-analyzer: isInternalLink(targetUrl, baseUrl)
isInternalLink(targetUrl, baseUrl) == hostname(targetUrl) = hostname(baseUrl)

RECURSIVE SeqMapLinks(_, _)
SeqMapLinks(html, baseUrl) ==
    IF html = <<>> THEN <<>>
    ELSE LET a == Head(html)
             n == normalizeUrl(a.href, baseUrl)
             rest == SeqMapLinks(Tail(html), baseUrl)
         IN  IF n = Null THEN rest
             ELSE <<[targetUrl  |-> n,
                     anchorText |-> a.text,
                     rel        |-> a.rel,
                     isInternal |-> isInternalLink(n, baseUrl)]>> \o rest

\* link-analyzer: extractLinks(html, baseUrl); html is the page's anchors
extractLinks(html, baseUrl) == SeqMapLinks(html, baseUrl)

(***************************************************************************)
(* The network, as the resolver sees it: what a request to a URL answers   *)
(* when redirects are not followed.                                        *)
(***************************************************************************)
Urls == { Url(h, p, "") : h \in {"a.test", "b.test"}, p \in {"/", "/b"} }

Answer(s, loc) == [failed |-> FALSE, status |-> s, location |-> loc, error |-> NoError]
Failure(msg)   == [failed |-> TRUE, status |-> 0, location |-> Null, error |-> msg]

NetOk    == [u \in Urls |-> Answer(200, Null)]
NetDown  == [u \in Urls |-> Failure("fetch failed")]
NetMoved == [u \in Urls |-> IF u.path = "/b" THEN Answer(301, Url("", "/", ""))
                                             ELSE Answer(200, Null)]
\* /b redirects to / and / does not answer
NetLost  == [u \in Urls |-> IF u.path = "/b" THEN Answer(301, Url("", "/", ""))
                                             ELSE Failure("fetch failed")]
Nets == {NetOk, NetDown, NetMoved, NetLost}

\* the hop ceiling of the resolver
MaxRedirects == 10

ChainUrls(chain) == { chain[i].url : i \in 1..Len(chain) }

(***************************************************************************)
(* link-analyzer: getRedirectChain(url) -- one request per hop, redirects  *)
(* not followed by the client; returns {finalStatus, chain, error?} and    *)
(* never throws.                                                           *)
(***************************************************************************)
\* the outcome of a resolution that ends, and of one that goes on
Stop(status, hops, err) ==
    [more |-> FALSE, next |-> Null, hops |-> hops,
     out |-> [finalStatus |-> status, chain |-> hops, error |-> err]]
Follow(next, hops) ==
    [more |-> TRUE, next |-> next, hops |-> hops,
     out |-> [finalStatus |-> 0, chain |-> hops, error |-> NoError]]

\* mutant: a redirect to a URL of the chain is followed like any other
followStepNoCycleCheck(currentUrl, net, chain) ==
    LET r == net[currentUrl] IN
    IF r.failed
    THEN Stop(0, chain, r.error)
    ELSE LET hops == Append(chain, [url |-> currentUrl, status |-> r.status])
             next == normalizeUrl(r.location, currentUrl)
         IN  IF r.status \in 300..399 /\ next # Null
             THEN IF Len(hops) >= MaxRedirects
                  THEN Stop(r.status, hops, "too many redirects")
                  ELSE Follow(next, hops)
             ELSE Stop(r.status, hops, NoError)

\* mutant: the ceiling is checked one hop late
followStepCeilingLate(currentUrl, net, chain) ==
    LET r == net[currentUrl] IN
    IF r.failed
    THEN Stop(0, chain, r.error)
    ELSE LET hops == Append(chain, [url |-> currentUrl, status |-> r.status])
             next == normalizeUrl(r.location, currentUrl)
         IN  IF r.status \in 300..399 /\ next # Null
             THEN IF next \in ChainUrls(hops)
                  THEN Stop(r.status, hops, "redirect loop")
                  ELSE IF Len(hops) > MaxRedirects
                  THEN Stop(r.status, hops, "too many redirects")
                  ELSE Follow(next, hops)
             ELSE Stop(r.status, hops, NoError)

\* mutant: a failure after a redirect reports the status of the redirect
followStepFailureKeepsStatus(currentUrl, net, chain) ==
    LET r == net[currentUrl] IN
    IF r.failed
    THEN Stop(IF chain = <<>> THEN 0 ELSE chain[Len(chain)].status, chain, r.error)
    ELSE LET hops == Append(chain, [url |-> currentUrl, status |-> r.status])
             next == normalizeUrl(r.location, currentUrl)
         IN  IF r.status \in 300..399 /\ next # Null
             THEN IF next \in ChainUrls(hops)
                  THEN Stop(r.status, hops, "redirect loop")
                  ELSE IF Len(hops) >= MaxRedirects
                  THEN Stop(r.status, hops, "too many redirects")
                  ELSE Follow(next, hops)
             ELSE Stop(r.status, hops, NoError)

\* mutant: a hop is appended only for a redirect that is followed
followStepRedirectsOnly(currentUrl, net, chain) ==
    LET r == net[currentUrl] IN
    IF r.failed
    THEN Stop(0, chain, r.error)
    ELSE LET hops == Append(chain, [url |-> currentUrl, status |-> r.status])
             next == normalizeUrl(r.location, currentUrl)
         IN  IF r.status \in 300..399 /\ next # Null
             THEN IF next \in ChainUrls(hops)
                  THEN Stop(r.status, hops, "redirect loop")
                  ELSE IF Len(hops) >= MaxRedirects
                  THEN Stop(r.status, hops, "too many redirects")
                  ELSE Follow(next, hops)
             ELSE Stop(r.status, chain, NoError)

\* one hop: the request to currentUrl and what its response leads to
followStep(currentUrl, net, chain) ==
    LET r == net[currentUrl] IN
    IF r.failed
    THEN Stop(0, chain, r.error)
    ELSE LET hops == Append(chain, [url |-> currentUrl, status |-> r.status])
             next == normalizeUrl(r.location, currentUrl)
         IN  IF r.status \in 300..399 /\ next # Null
             THEN IF next \in ChainUrls(hops)
                  THEN Stop(r.status, hops, "redirect loop")
                  ELSE IF Len(hops) >= MaxRedirects
                  THEN Stop(r.status, hops, "too many redirects")
                  ELSE Follow(next, hops)
             ELSE Stop(r.status, hops, NoError)

RECURSIVE followChain(_, _, _)
followChain(currentUrl, net, chain) ==
    LET s == followStep(currentUrl, net, chain)
    IN  IF s.more THEN followChain(s.next, net, s.hops) ELSE s.out

getRedirectChain(url, net) == followChain(url, net, <<>>)

\* link-analyzer: formatRedirectChain(chain) -- "url (status) -> url (status)"
RECURSIVE formatRedirectChain(_)
formatRedirectChain(chain) ==
    IF chain = <<>> THEN ""
    ELSE LET hop == Href(chain[1].url) \o " (" \o ToString(chain[1].status) \o ")"
         IN  IF Len(chain) = 1 THEN hop
             ELSE hop \o " -> " \o formatRedirectChain(Tail(chain))

\* Array.prototype.join(', ') of the rel tokens
RECURSIVE JoinRel(_)
JoinRel(rel) ==
    IF rel = <<>> THEN ""
    ELSE IF Len(rel) = 1 THEN rel[1]
    ELSE rel[1] \o ", " \o JoinRel(Tail(rel))

(***************************************************************************)
(* Requests.  body.urls is undefined, a value that is no array, or an      *)
(* array of raw URL strings.  rateLimit only sets the length of the        *)
(* sleeps, which are steps of the model without a duration.                *)
(***************************************************************************)
RECURSIVE SeqsUpTo(_, _)
SeqsUpTo(S, n) ==
    IF n = 0 THEN {<<>>}
    ELSE LET shorter == SeqsUpTo(S, n - 1)
         IN  shorter \cup { Append(q, x) : q \in shorter, x \in S }

UrlsField ==
    { [kind |-> "undefined", items |-> <<>>], [kind |-> "string", items |-> <<>>] }
    \cup { [kind |-> "array", items |-> q] : q \in SeedLists }

Requests ==
    [urls : UrlsField, recursive : BOOLEAN, maxUrls : 0..MaxUrlsCap,
     maxDepth : 0..MaxDepthCap, sameDomainOnly : BOOLEAN]

\* !body.urls
IsFalsy(urls) == urls.kind = "undefined"
\* mutant: any value that is not undefined passes for an array
IsArrayLoose(urls) == urls.kind # "undefined"

\* Array.isArray(body.urls)
IsArray(urls) == urls.kind = "array"

(***************************************************************************)
(* Pages: the markup of a fetched page, reduced to its anchors.            *)
(***************************************************************************)
Anchors ==
    { [href |-> Url("", "/b", ""),          text |-> "B",    rel |-> <<>>],
      [href |-> Url("a.test", "/", "#top"), text |-> "Home", rel |-> <<>>],
      [href |-> Url("b.test", "/", ""),     text |-> "Ext",
       rel |-> <<"nofollow", "noopener">>],
      [href |-> Null,                       text |-> "bad",  rel |-> <<>>] }

Pages == SeqsUpTo(Anchors, MaxLinks)

\* what fetch() and response.text() throw: a TypeError, a timeout
Thrown ==
    { [isError |-> TRUE, message |-> "fetch failed"],
      [isError |-> TRUE, message |-> "The operation was aborted due to timeout"] }

NoThrow == [isError |-> FALSE, message |-> ""]

\* error instanceof Error ? error.message : 'Unknown error' (line 133)
ErrorMessage(error) == IF error.isError THEN error.message ELSE "Unknown error"

\* a network that may answer anything to any request
OpenWeb ==
    [fixed |-> FALSE,
     fetch |-> [u \in Urls |-> [failed |-> FALSE, html |-> <<>>, error |-> NoThrow]],
     net   |-> NetOk]

\* what fetch(url) can return as the page, what it can throw, and what
\* getRedirectChain can meet
PagesAt(u) ==
    IF ~web.fixed THEN Pages
    ELSE IF web.fetch[u].failed THEN {} ELSE {web.fetch[u].html}

ThrownAt(u) ==
    IF ~web.fixed THEN Thrown
    ELSE IF web.fetch[u].failed THEN {web.fetch[u].error} ELSE {}

NetsAt == IF web.fixed THEN {web.net} ELSE Nets

\* no request to api/read-file
NoReader ==
    [pc |-> "idle", query |-> [path |-> [kind |-> "missing", abs |-> FALSE, segs |-> <<>>],
                               base64 |-> FALSE],
     resolvedPath |-> <<>>, read |-> <<>>, statusCode |-> 0, encoding |-> ""]

\* no resolution is looked at hop by hop
NoResolver ==
    [pc |-> "idle", net |-> NetOk, current |-> Null, chain |-> <<>>,
     requests |-> <<>>, out |-> [finalStatus |-> 0, chain |-> <<>>, error |-> NoError]]

NoItem == [url |-> Null, depth |-> 0]

NoResponse == [statusCode |-> 0, message |-> "", results |-> <<>>,
               stats |-> [totalLinks |-> 0, visited |-> 0, remaining |-> 0]]

\* parallelRequests of a new page, and the fallback of scrapeHtml (line 129)
DefaultBatch == 5

\* pages/index.vue: the refs of a new page (lines 41-61).  Of the log, logs
\* keeps the lines that tell how a run went on: 'Fertig!', 'Abgebrochen' and
\* the message of a caught error.  runs and stops are history: the calls of
\* startScraping and the number of Stop clicks.
NoPage ==
    [urlInput |-> <<>>, mode |-> "html", parallelRequests |-> DefaultBatch,
     progress |-> [done |-> 0, total |-> 0], htmlResults |-> <<>>, linkResults |-> <<>>,
     savedFiles |-> <<>>, error |-> "", logs |-> <<>>, runs |-> <<>>, stops |-> 0]

\* the SEO audit component: its refs when it is set up (lines 56-68).  Of
\* the log, logs keeps 'Cancelled', 'Done!' and the message of a caught
\* error; scores, checkLinks and selectedResult are left out.  runs
\* and requests are history: the calls of runAudit, each with its loop index
\* and the await it is suspended at, and the bodies posted to /api/seo-audit.
NoAudit ==
    [urlInput |-> <<>>, saveResults |-> TRUE, isLoading |-> FALSE, isCancelled |-> FALSE,
     results |-> <<>>, savedFiles |-> <<>>, stats |-> <<>>, error |-> "", logs |-> <<>>,
     history |-> <<>>, runs |-> <<>>, requests |-> <<>>]

\* Screenshots.vue (lines 27-41), ImageScraper.vue (lines 37-55): the refs of
\* a new component.  Of the log, logs keeps 'Cancelled', 'Done!' and the
\* summary line of takeScreenshots.  i and await are the loop index of the run
\* and whether its request is pending; runs, sent and stopped are history:
\* the runs started, the URLs requested by the run, and whether Stop was
\* pressed during it.
NoShots ==
    [component |-> "screenshots", urlInput |-> <<>>, isLoading |-> FALSE,
     isCancelled |-> FALSE, results |-> <<>>, outputDir |-> "", logs |-> <<>>,
     i |-> 0, await |-> FALSE, runs |-> 0, sent |-> <<>>, stopped |-> FALSE]

\* api/get-output-dir: the output directory as readdir and stat show it, and
\* the files of the response.  The sort of the handler (lines 77-83) only
\* reorders the entries, whose names are distinct: files is kept as a set.
NoListing == [tree |-> <<>>, files |-> {}, answered |-> FALSE]

\* the components modelled on their own, before their first step
UiAtRest ==
    /\ page = NoPage
    /\ audit = NoAudit
    /\ shots = NoShots
    /\ listing = NoListing

Init ==
    /\ body \in Requests
    /\ pc = "validate"
    /\ results = <<>>
    /\ visited = {}
    /\ queue = <<>>
    /\ baseDomains = {}
    /\ item = NoItem
    /\ links = <<>>
    /\ idx = 0
    /\ response = NoResponse
    /\ enqueued = <<>>
    /\ fetched = <<>>
    /\ resolved = 0
    /\ lastStep = "start"
    /\ isRunning = TRUE
    /\ web = OpenWeb
    /\ self = 1
    /\ peers = <<>>
    /\ resolver = NoResolver
    /\ reader = NoReader
    /\ UiAtRest

(***************************************************************************)
(* Validation (lines 32-37): createError({statusCode: 400}) is thrown      *)
(* before results, visited and queue exist.                                *)
(***************************************************************************)
Reject ==
    /\ pc = "validate"
    /\ IsFalsy(body.urls) \/ ~IsArray(body.urls)
    /\ response' = [NoResponse EXCEPT !.statusCode = 400,
                                      !.message = "urls array required"]
    /\ pc' = "rejected"
    /\ lastStep' = "rejected"
    /\ UNCHANGED <<uiVars, reader, resolver, web, self, peers, isRunning, body, results, visited, queue, baseDomains, item, links, idx,
                   enqueued, fetched, resolved>>

\* queue.shift() (line 66): the head leaves the queue
Shift(q) == Tail(q)

\* mutant: the item is put at the front of the queue (unshift)
PushFront(q, x) == <<x>> \o q

\* queue.push(x) (lines 47, 116)
Push(q, x) == Append(q, x)

\* mutant: the seeds are pushed and not added to the visited set
RECURSIVE SeedLoopUnmarked(_, _, _)
SeedLoopUnmarked(urls, q, v) ==
    IF urls = <<>> THEN [queue |-> q, visited |-> v]
    ELSE LET normalized == normalizeUrl(Head(urls), Null)
         IN  IF normalized # Null /\ normalized \notin v
             THEN SeedLoopUnmarked(Tail(urls), Push(q, [url |-> normalized, depth |-> 0]), v)
             ELSE SeedLoopUnmarked(Tail(urls), q, v)

\* the seed loop (lines 44-50): the queue and the visited set after it
RECURSIVE SeedLoop(_, _, _)
SeedLoop(urls, q, v) ==
    IF urls = <<>> THEN [queue |-> q, visited |-> v]
    ELSE LET normalized == normalizeUrl(Head(urls), Null)
         IN  IF normalized # Null /\ normalized \notin v
             THEN SeedLoop(Tail(urls), Push(q, [url |-> normalized, depth |-> 0]),
                           v \cup {normalized})
             ELSE SeedLoop(Tail(urls), q, v)

\* baseDomains (lines 53-61): the hostnames of the urls that parse
BaseDomains(urls) ==
    { hostname(urls[i]) : i \in { j \in 1..Len(urls) :
                                    urls[j].valid /\ urls[j].host # "" } }

Seed ==
    /\ pc = "validate"
    /\ ~IsFalsy(body.urls) /\ IsArray(body.urls)
    /\ LET seeded == SeedLoop(body.urls.items, <<>>, {})
       IN  /\ queue' = seeded.queue
           /\ visited' = seeded.visited
           /\ enqueued' = seeded.queue
    /\ baseDomains' = BaseDomains(body.urls.items)
    /\ pc' = "while"
    /\ lastStep' = "seeded"
    /\ UNCHANGED <<uiVars, reader, resolver, web, self, peers, isRunning, body, results, item, links, idx, response, fetched, resolved>>

(***************************************************************************)
(* The crawl loop (lines 65-136).                                          *)
(***************************************************************************)
\* mutant: the loop stops one result short of the cap
LoopConditionOneShort == Len(queue) > 0 /\ Len(results) + 1 < body.maxUrls

\* the while condition (line 65)
LoopCondition == Len(queue) > 0 /\ Len(results) < body.maxUrls

Dequeue ==
    /\ pc = "while"
    /\ LoopCondition
    /\ item' = Head(queue)
    /\ queue' = Shift(queue)
    /\ pc' = IF Len(results) > 0 THEN "sleep" ELSE "fetch"
    /\ lastStep' = "dequeued"
    /\ UNCHANGED <<uiVars, reader, resolver, web, self, peers, isRunning, body, results, visited, baseDomains, links, idx, response,
                   enqueued, fetched, resolved>>

\* history: the page whose fetch is issued and the result count at that time
Fetch(it) == [url |-> it.url, depth |-> it.depth, at |-> Len(results)]

\* await sleep(delayMs) (lines 70-72)
Sleep ==
    /\ pc = "sleep"
    /\ pc' = "fetch"
    /\ lastStep' = "slept"
    /\ UNCHANGED <<uiVars, reader, resolver, web, self, peers, isRunning, body, results, visited, queue, baseDomains, item, links, idx,
                   response, enqueued, fetched, resolved>>

\* fetch, response.text() and extractLinks succeed (lines 75-83)
FetchPage ==
    /\ pc = "fetch"
    /\ \E html \in PagesAt(item.url) :
          links' = extractLinks(html, item.url)
    /\ idx' = 1
    /\ fetched' = Append(fetched, Fetch(item))
    /\ pc' = "for"
    /\ lastStep' = "fetched"
    /\ UNCHANGED <<uiVars, reader, resolver, web, self, peers, isRunning, body, results, visited, queue, baseDomains, item, response,
                   enqueued, resolved>>

\* mutant: the record of the catch block carries no error
FailureResultNoMessage(it, msg) ==
    [sourceUrl     |-> it.url,
     targetUrl     |-> it.url,
     status        |-> 0,
     redirectChain |-> "",
     type          |-> "internal",
     anchorText    |-> "",
     rel           |-> "",
     depth         |-> it.depth,
     error         |-> NoError]

\* the record of the catch block (lines 124-134); queue items carry no
\* sourceUrl, so item.sourceUrl || item.url is item.url
FailureResult(it, msg) ==
    [sourceUrl     |-> it.url,
     targetUrl     |-> it.url,
     status        |-> 0,
     redirectChain |-> "",
     type          |-> "internal",
     anchorText    |-> "",
     rel           |-> "",
     depth         |-> it.depth,
     error         |-> msg]

\* mutant: the error of the fetch is not caught and ends the handler
FetchFailsUncaught ==
    /\ pc = "fetch"
    /\ \E error \in Thrown :
          response' = [NoResponse EXCEPT !.statusCode = 500,
                                         !.message = ErrorMessage(error)]
    /\ fetched' = Append(fetched, Fetch(item))
    /\ pc' = "crashed"
    /\ lastStep' = "fetchFailed"
    /\ UNCHANGED <<uiVars, reader, resolver, web, self, peers, isRunning, body, results, visited, queue, baseDomains, item, links, idx,
                   enqueued, resolved>>

\* mutant: the page whose fetch failed is put back into the queue
FetchFailsRetry ==
    /\ pc = "fetch"
    /\ \E error \in ThrownAt(item.url) :
          results' = Append(results, FailureResult(item, ErrorMessage(error)))
    /\ fetched' = Append(fetched, Fetch(item))
    /\ queue' = Push(queue, item)
    /\ pc' = "while"
    /\ lastStep' = "fetchFailed"
    /\ UNCHANGED <<uiVars, reader, resolver, web, self, peers, isRunning, body, visited, baseDomains,
                   item, links, idx, response, enqueued, resolved>>

\* mutant: the record of the catch block is put before the others (unshift)
FetchFailsUnshift ==
    /\ pc = "fetch"
    /\ \E error \in ThrownAt(item.url) :
          results' = <<FailureResult(item, ErrorMessage(error))>> \o results
    /\ fetched' = Append(fetched, Fetch(item))
    /\ pc' = "while"
    /\ lastStep' = "fetchFailed"
    /\ UNCHANGED <<uiVars, reader, resolver, web, self, peers, isRunning, body, visited, queue,
                   baseDomains, item, links, idx, response, enqueued, resolved>>

\* fetch or response.text() throws: the catch block (lines 123-135)
FetchFails ==
    /\ pc = "fetch"
    /\ \E error \in ThrownAt(item.url) :
          results' = Append(results, FailureResult(item, ErrorMessage(error)))
    /\ fetched' = Append(fetched, Fetch(item))
    /\ pc' = "while"
    /\ lastStep' = "fetchFailed"
    /\ UNCHANGED <<uiVars, reader, resolver, web, self, peers, isRunning, body, visited, queue, baseDomains, item, links, idx, response,
                   enqueued, resolved>>

\* mutant: the cap check lets one more link through
CapReachedLate == Len(results) > body.maxUrls

\* mutant: the cap check stops one link early
CapReachedEarly == Len(results) + 1 >= body.maxUrls

\* the cap check before each link (line 87)
CapReached == Len(results) >= body.maxUrls

\* the for-of loop has a next link and the cap is not reached
NextLink ==
    /\ pc = "for"
    /\ idx <= Len(links)
    /\ ~CapReached
    /\ pc' = "resolve"
    /\ lastStep' = "nextLink"
    /\ UNCHANGED <<uiVars, reader, resolver, web, self, peers, isRunning, body, results, visited, queue, baseDomains, item, links, idx,
                   response, enqueued, fetched, resolved>>

\* the for-of loop is exhausted, or breaks on the cap
EndLinks ==
    /\ pc = "for"
    /\ idx > Len(links) \/ CapReached
    /\ pc' = "while"
    /\ lastStep' = "endLinks"
    /\ UNCHANGED <<uiVars, reader, resolver, web, self, peers, isRunning, body, results, visited, queue, baseDomains, item, links, idx,
                   response, enqueued, fetched, resolved>>

\* mutant: the record names the URL the redirects ended at
LinkResultOfDestination(it, link, redirectInfo) ==
    [sourceUrl     |-> it.url,
     targetUrl     |-> IF redirectInfo.chain = <<>> THEN link.targetUrl
                       ELSE redirectInfo.chain[Len(redirectInfo.chain)].url,
     status        |-> redirectInfo.finalStatus,
     redirectChain |-> formatRedirectChain(redirectInfo.chain),
     type          |-> IF link.isInternal THEN "internal" ELSE "external",
     anchorText    |-> link.anchorText,
     rel           |-> JoinRel(link.rel),
     depth         |-> it.depth,
     error         |-> redirectInfo.error]

\* the LinkResult of one link (lines 92-102)
LinkResultOf(it, link, redirectInfo) ==
    [sourceUrl     |-> it.url,
     targetUrl     |-> link.targetUrl,
     status        |-> redirectInfo.finalStatus,
     redirectChain |-> formatRedirectChain(redirectInfo.chain),
     type          |-> IF link.isInternal THEN "internal" ELSE "external",
     anchorText    |-> link.anchorText,
     rel           |-> JoinRel(link.rel),
     depth         |-> it.depth,
     error         |-> redirectInfo.error]

\* mutant: the visited set is not consulted
ShouldEnqueueUnvisitedOrNot(it, link) ==
    /\ body.recursive
    /\ link.isInternal
    /\ it.depth < body.maxDepth
    /\ ~body.sameDomainOnly \/ hostname(link.targetUrl) \in baseDomains

\* mutant: every link is followed, whatever its host
ShouldEnqueueAnyHost(it, link) ==
    /\ body.recursive
    /\ it.depth < body.maxDepth
    /\ link.targetUrl \notin visited

\* mutant: the recursive flag is not consulted
ShouldEnqueueAlways(it, link) ==
    /\ link.isInternal
    /\ it.depth < body.maxDepth
    /\ link.targetUrl \notin visited
    /\ ~body.sameDomainOnly \/ hostname(link.targetUrl) \in baseDomains

\* mutant: pages at maxDepth are expanded too
ShouldEnqueueOneDeeper(it, link) ==
    /\ body.recursive
    /\ link.isInternal
    /\ it.depth <= body.maxDepth
    /\ link.targetUrl \notin visited
    /\ ~body.sameDomainOnly \/ hostname(link.targetUrl) \in baseDomains

\* the re-enqueue decision (lines 107-114)
ShouldEnqueue(it, link) ==
    /\ body.recursive
    /\ link.isInternal
    /\ it.depth < body.maxDepth
    /\ link.targetUrl \notin visited
    /\ ~body.sameDomainOnly \/ hostname(link.targetUrl) \in baseDomains

\* the item pushed for a link (line 116)
Child(it, link) == [url |-> link.targetUrl, depth |-> it.depth + 1]

\* getRedirectChain returns, the result is pushed, the link is enqueued or
\* not (lines 90-118)
ResolveLink ==
    /\ pc = "resolve"
    /\ \E net \in NetsAt :
          LET link == links[idx]
              redirectInfo == getRedirectChain(link.targetUrl, net)
          IN  results' = Append(results, LinkResultOf(item, links[idx], redirectInfo))
    /\ IF ShouldEnqueue(item, links[idx])
       THEN /\ visited' = visited \cup {links[idx].targetUrl}
            /\ queue' = Push(queue, Child(item, links[idx]))
            /\ enqueued' = Append(enqueued, Child(item, links[idx]))
       ELSE UNCHANGED <<visited, queue, enqueued>>
    /\ resolved' = resolved + 1
    /\ pc' = "linkSleep"
    /\ lastStep' = "resolved"
    /\ UNCHANGED <<uiVars, reader, resolver, web, self, peers, isRunning, body, baseDomains, item, links, idx, response, fetched>>

\* await sleep(delayMs / 2) (line 121), then the next link
LinkSleep ==
    /\ pc = "linkSleep"
    /\ idx' = idx + 1
    /\ pc' = "for"
    /\ lastStep' = "linkSlept"
    /\ UNCHANGED <<uiVars, reader, resolver, web, self, peers, isRunning, body, results, visited, queue, baseDomains, item, links,
                   response, enqueued, fetched, resolved>>

\* the loop ends and the handler returns {results, stats} (lines 138-145)
Return ==
    /\ pc = "while"
    /\ ~LoopCondition
    /\ response' = [statusCode |-> 200, message |-> "", results |-> results,
                    stats |-> [totalLinks |-> Len(results),
                               visited    |-> Cardinality(visited),
                               remaining  |-> Len(queue)]]
    /\ pc' = "done"
    /\ lastStep' = "returned"
    /\ UNCHANGED <<uiVars, reader, resolver, web, self, peers, isRunning, body, results, visited, queue, baseDomains, item, links, idx,
                   enqueued, fetched, resolved>>

Next ==
    \/ Reject
    \/ Seed
    \/ Dequeue
    \/ Sleep
    \/ FetchPage
    \/ FetchFails
    \/ NextLink
    \/ EndLinks
    \/ ResolveLink
    \/ LinkSleep
    \/ Return

Spec == Init /\ [][Next]_vars

(***************************************************************************)
(* pages/index.vue: the Stop button, shown while isRunning (lines 316-319, *)
(* 219-222).  stopScraping clears the flag of the page; the request sent   *)
(* by scrapeLinks (lines 180-190) carries no signal and is not aborted.    *)
(***************************************************************************)
stopScraping ==
    /\ isRunning
    /\ pc \notin {"done", "rejected"}
    /\ isRunning' = FALSE
    /\ UNCHANGED <<uiVars, reader, resolver, web, self, peers, body, pc, results, visited, queue, baseDomains, item, links,
                   idx, response, enqueued, fetched, resolved, lastStep>>

\* the crawl with a user who may press Stop while it runs
StopSpec == Init /\ [][Next \/ stopScraping]_vars

\* every await of the handler returns or throws: no step is postponed forever
FairSpec == Spec /\ WF_vars(Next)

(***************************************************************************)
(* Several invocations of the handler on one server.  Node runs one of     *)
(* them at a time and changes to another where the running one awaits;     *)
(* results, visited and queue are constants of the handler's closure       *)
(* (lines 39-41), so each invocation has its own.                          *)
(***************************************************************************)
\* the state of the running invocation
Saved ==
    [body |-> body, pc |-> pc, results |-> results, visited |-> visited,
     queue |-> queue, baseDomains |-> baseDomains, item |-> item,
     links |-> links, idx |-> idx, response |-> response,
     enqueued |-> enqueued, fetched |-> fetched, resolved |-> resolved,
     lastStep |-> lastStep]

\* an invocation that has received its body and not started
Fresh(b) ==
    [body |-> b, pc |-> "validate", results |-> <<>>, visited |-> {},
     queue |-> <<>>, baseDomains |-> {}, item |-> NoItem,
     links |-> <<>>, idx |-> 0, response |-> NoResponse,
     enqueued |-> <<>>, fetched |-> <<>>, resolved |-> 0,
     lastStep |-> "start"]

\* the entry of peers that stands for the running invocation
Running ==
    [Fresh([urls |-> [kind |-> "undefined", items |-> <<>>], recursive |-> FALSE,
            maxUrls |-> 0, maxDepth |-> 0, sameDomainOnly |-> FALSE])
     EXCEPT !.pc = "running"]

\* invocation i, running or suspended
Loc(i) == IF i = self THEN Saved ELSE peers[i]

Ended(c) == c.pc \in {"done", "rejected"}

\* the awaits of the handler: readBody (line 30), sleep (lines 71, 121),
\* fetch and response.text (lines 75, 82), getRedirectChain (line 90)
Awaits == {"validate", "sleep", "fetch", "resolve", "linkSleep"}

\* the third invocation runs alone: it starts when no other is inside its
\* loop and no other runs before it has ended
RunsAlone(j) ==
    /\ self = 3 => pc = "validate" \/ Ended(Saved)
    /\ j = 3 => \A k \in DOMAIN peers \ {3} :
                    Loc(k).pc = "validate" \/ Ended(Loc(k))

\* mutant: visited is one set of the module, shared by the invocations
SwitchSharingVisited(j) ==
    /\ j \in DOMAIN peers
    /\ j # self
    /\ pc \in Awaits \/ Ended(Saved)
    /\ ~Ended(peers[j])
    /\ RunsAlone(j)
    /\ peers' = [peers EXCEPT ![self] = Saved, ![j] = Running]
    /\ self' = j
    /\ body' = peers[j].body
    /\ pc' = peers[j].pc
    /\ results' = peers[j].results
    /\ queue' = peers[j].queue
    /\ baseDomains' = peers[j].baseDomains
    /\ item' = peers[j].item
    /\ links' = peers[j].links
    /\ idx' = peers[j].idx
    /\ response' = peers[j].response
    /\ enqueued' = peers[j].enqueued
    /\ fetched' = peers[j].fetched
    /\ resolved' = peers[j].resolved
    /\ lastStep' = peers[j].lastStep
    /\ UNCHANGED <<uiVars, reader, resolver, visited, web, isRunning>>

\* the running invocation awaits or has ended and invocation j goes on
Switch(j) ==
    /\ j \in DOMAIN peers
    /\ j # self
    /\ pc \in Awaits \/ Ended(Saved)
    /\ ~Ended(peers[j])
    /\ RunsAlone(j)
    /\ peers' = [peers EXCEPT ![self] = Saved, ![j] = Running]
    /\ self' = j
    /\ body' = peers[j].body
    /\ pc' = peers[j].pc
    /\ results' = peers[j].results
    /\ visited' = peers[j].visited
    /\ queue' = peers[j].queue
    /\ baseDomains' = peers[j].baseDomains
    /\ item' = peers[j].item
    /\ links' = peers[j].links
    /\ idx' = peers[j].idx
    /\ response' = peers[j].response
    /\ enqueued' = peers[j].enqueued
    /\ fetched' = peers[j].fetched
    /\ resolved' = peers[j].resolved
    /\ lastStep' = peers[j].lastStep
    /\ UNCHANGED <<uiVars, reader, resolver, web, isRunning>>

\* two networks that answer the same to the same request
Web1 ==
    [fixed |-> TRUE,
     fetch |-> [u \in Urls |->
        IF u = Url("a.test", "/", "")
        THEN [failed |-> FALSE, error |-> NoThrow,
              html |-> << [href |-> Url("", "/b", ""), text |-> "B", rel |-> <<>>],
                          [href |-> Url("a.test", "/", "#top"), text |-> "Home",
                           rel |-> <<>>] >>]
        ELSE IF u = Url("a.test", "/b", "")
        THEN [failed |-> FALSE, error |-> NoThrow,
              html |-> << [href |-> Url("b.test", "/", ""), text |-> "Ext",
                           rel |-> <<"nofollow", "noopener">>] >>]
        ELSE IF u = Url("b.test", "/", "")
        THEN [failed |-> TRUE, html |-> <<>>,
              error |-> [isError |-> TRUE, message |-> "fetch failed"]]
        ELSE [failed |-> FALSE, error |-> NoThrow, html |-> <<>>]],
     net |-> NetMoved]

Web2 ==
    [fixed |-> TRUE,
     fetch |-> [u \in Urls |->
        IF u = Url("a.test", "/", "")
        THEN [failed |-> TRUE, html |-> <<>>,
              error |-> [isError |-> TRUE,
                         message |-> "The operation was aborted due to timeout"]]
        ELSE IF u = Url("b.test", "/", "")
        THEN [failed |-> FALSE, error |-> NoThrow,
              html |-> << [href |-> Url("", "/b", ""), text |-> "B", rel |-> <<>>] >>]
        ELSE [failed |-> FALSE, error |-> NoThrow, html |-> <<>>]],
     net |-> NetOk]

Webs == {Web1, Web2}

\* the requests of the invocations
PairRequests ==
    [urls : { [kind |-> "array", items |-> q] :
                q \in { <<Url("a.test", "/", "")>>,
                        <<Url("a.test", "/", "#top"), Url("b.test", "/", ""),
                          Url("a.test", "/", "")>> } },
     recursive : BOOLEAN, maxUrls : {MaxUrlsCap}, maxDepth : {MaxDepthCap},
     sameDomainOnly : {TRUE}]

NotAnArray ==
    [urls |-> [kind |-> "string", items |-> <<>>], recursive |-> FALSE,
     maxUrls |-> MaxUrlsCap, maxDepth |-> MaxDepthCap, sameDomainOnly |-> TRUE]

\* invocation 1 and invocation 2 have any two requests, invocation 3 has the
\* request of invocation 1
PairInit ==
    /\ web \in Webs
    /\ resolver = NoResolver
    /\ reader = NoReader
    /\ UiAtRest
    /\ isRunning = TRUE
    /\ self = 1
    /\ body \in PairRequests
    /\ \E b \in PairRequests \cup {NotAnArray} :
          peers = <<Running, Fresh(b), Fresh(body)>>
    /\ pc = "validate"
    /\ results = <<>>
    /\ visited = {}
    /\ queue = <<>>
    /\ baseDomains = {}
    /\ item = NoItem
    /\ links = <<>>
    /\ idx = 0
    /\ response = NoResponse
    /\ enqueued = <<>>
    /\ fetched = <<>>
    /\ resolved = 0
    /\ lastStep = "start"

\* a page with one link, to another host
Web3 ==
    [fixed |-> TRUE,
     fetch |-> [u \in Urls |->
        IF u = Url("a.test", "/", "")
        THEN [failed |-> FALSE, error |-> NoThrow,
              html |-> << [href |-> Url("b.test", "/", ""), text |-> "Ext",
                           rel |-> <<"nofollow", "noopener">>] >>]
        ELSE [failed |-> FALSE, error |-> NoThrow, html |-> <<>>]],
     net |-> NetOk]

\* one request is sent twice, with sameDomainOnly set and not set
FlagInit ==
    /\ web \in Webs \cup {Web3}
    /\ resolver = NoResolver
    /\ reader = NoReader
    /\ UiAtRest
    /\ isRunning = TRUE
    /\ self = 1
    /\ body \in { r \in Requests : r.sameDomainOnly }
    /\ peers = <<Running, Fresh([body EXCEPT !.sameDomainOnly = FALSE])>>
    /\ pc = "validate"
    /\ results = <<>>
    /\ visited = {}
    /\ queue = <<>>
    /\ baseDomains = {}
    /\ item = NoItem
    /\ links = <<>>
    /\ idx = 0
    /\ response = NoResponse
    /\ enqueued = <<>>
    /\ fetched = <<>>
    /\ resolved = 0
    /\ lastStep = "start"

PairNext == Next \/ \E j \in 1..3 : Switch(j)

PairSpec == PairInit /\ [][PairNext]_vars

FlagSpec == FlagInit /\ [][PairNext]_vars

(***************************************************************************)
(* getRedirectChain on one link, one request at a time, against networks   *)
(* of redirects: a line of n redirects that ends, a line that loops back,  *)
(* a line that ends in a transport failure, a redirect without Location.   *)
(***************************************************************************)
MaxChain == 12    \* longest line of redirects

ChainUrl(i) == Url("a.test", "/" \o ToString(i), "")

ChainSpace == { ChainUrl(i) : i \in 0..MaxChain }

Position(u) == CHOOSE i \in 0..MaxChain : ChainUrl(i) = u

\* the status of the redirect at position i
Moved(i) == 301 + (i % 3)

\* n redirects, then a page
Line(n) ==
    [u \in ChainSpace |->
        IF Position(u) < n THEN Answer(Moved(Position(u)), ChainUrl(Position(u) + 1))
        ELSE Answer(200, Null)]

\* n redirects, then a redirect back to position k
Loop(n, k) ==
    [u \in ChainSpace |->
        IF Position(u) < n THEN Answer(Moved(Position(u)), ChainUrl(Position(u) + 1))
        ELSE IF Position(u) = n THEN Answer(Moved(n), Url("", "/" \o ToString(k), ""))
        ELSE Answer(200, Null)]

\* n redirects, then no answer
Broken(n) ==
    [u \in ChainSpace |->
        IF Position(u) < n THEN Answer(Moved(Position(u)), ChainUrl(Position(u) + 1))
        ELSE Failure("fetch failed")]

\* n redirects, then a 3xx without a Location header
NoLocation(n) ==
    [u \in ChainSpace |->
        IF Position(u) < n THEN Answer(Moved(Position(u)), ChainUrl(Position(u) + 1))
        ELSE Answer(304, Null)]

ChainNets ==
    { Line(n) : n \in 0..MaxChain }
    \cup { Loop(n, k) : n \in 0..MaxChain, k \in 0..MaxChain }
    \cup { Broken(n) : n \in 0..MaxChain }
    \cup { NoLocation(n) : n \in 0..MaxChain }

\* getRedirectChain(ChainUrl(0)) is called on some network
ResolverInit ==
    /\ \E net \in ChainNets :
          resolver = [NoResolver EXCEPT !.pc = "request", !.net = net,
                                        !.current = ChainUrl(0)]
    /\ body = NotAnArray
    /\ pc = "resolve"
    /\ results = <<>>
    /\ visited = {}
    /\ queue = <<>>
    /\ baseDomains = {}
    /\ item = NoItem
    /\ links = <<>>
    /\ idx = 0
    /\ response = NoResponse
    /\ enqueued = <<>>
    /\ fetched = <<>>
    /\ resolved = 0
    /\ lastStep = "nextLink"
    /\ isRunning = TRUE
    /\ web = OpenWeb
    /\ self = 1
    /\ peers = <<>>
    /\ reader = NoReader
    /\ UiAtRest

\* the request to the current URL is answered by a redirect that is followed
FollowRedirect ==
    /\ resolver.pc = "request"
    /\ LET s == followStep(resolver.current, resolver.net, resolver.chain)
       IN  /\ s.more
           /\ resolver' = [resolver EXCEPT
                               !.current = s.next,
                               !.chain = s.hops,
                               !.requests = Append(@, resolver.current)]
    /\ UNCHANGED <<body, pc, results, visited, queue, baseDomains, item, links, idx,
                   response, enqueued, fetched, resolved, lastStep, isRunning,
                   web, self, peers, reader, uiVars>>

\* the request to the current URL ends the resolution
EndChain ==
    /\ resolver.pc = "request"
    /\ LET s == followStep(resolver.current, resolver.net, resolver.chain)
       IN  /\ ~s.more
           /\ resolver' = [resolver EXCEPT
                               !.pc = "done",
                               !.chain = s.hops,
                               !.requests = Append(@, resolver.current),
                               !.out = s.out]
    /\ UNCHANGED <<body, pc, results, visited, queue, baseDomains, item, links, idx,
                   response, enqueued, fetched, resolved, lastStep, isRunning,
                   web, self, peers, reader, uiVars>>

ResolverNext == FollowRedirect \/ EndChain

ResolverSpec == ResolverInit /\ [][ResolverNext]_vars

\* every request of the resolver is answered or fails
ResolverFairSpec == ResolverSpec /\ WF_vars(ResolverNext)

(***************************************************************************)
(* server/api/read-file.get.ts: GET with query.path and query.base64.  A   *)
(* path is a list of names, a name a list of pieces of text, so that       *)
(* String.startsWith can be computed on the rendered path.                 *)
(***************************************************************************)
MaxSegs == 3    \* most names in a requested path

Dot       == <<".">>
DotDot    == <<"..">>
AppName   == <<"app">>
OutName   == <<"output">>
OtherName == <<"output", "-old">>
FileName  == <<"a.json">>

Names == {Dot, DotDot, AppName, OutName, OtherName, FileName}

\* process.cwd()
Cwd == <<AppName>>

\* query.path: absent, or a string; the empty string is the relative path
\* without names
QueryPaths ==
    { [kind |-> "missing", abs |-> FALSE, segs |-> <<>>] }
    \cup { [kind |-> "string", abs |-> a, segs |-> q] :
             a \in BOOLEAN, q \in SeqsUpTo(Names, MaxSegs) }

Queries == [path : QueryPaths, base64 : BOOLEAN]

\* path.resolve on a list of names: "." is dropped, ".." drops the name
\* before it and stays at the root
RECURSIVE Normalize(_, _)
Normalize(segs, acc) ==
    IF segs = <<>> THEN acc
    ELSE IF Head(segs) = Dot THEN Normalize(Tail(segs), acc)
    ELSE IF Head(segs) = DotDot
         THEN Normalize(Tail(segs),
                        IF acc = <<>> THEN acc ELSE SubSeq(acc, 1, Len(acc) - 1))
    ELSE Normalize(Tail(segs), Append(acc, Head(segs)))

\* path.resolve(...): an absolute path, relative ones taken from process.cwd()
resolve(path) ==
    IF path.abs THEN Normalize(path.segs, <<>>)
    ELSE Normalize(Cwd \o path.segs, <<>>)

\* the text of an absolute path, in pieces: "/" and the pieces of each name
RECURSIVE Render(_)
Render(segs) ==
    IF segs = <<>> THEN <<>>
    ELSE <<"/">> \o Head(segs) \o Render(Tail(segs))

\* String.prototype.startsWith
startsWith(str, prefix) ==
    /\ Len(str) >= Len(prefix)
    /\ SubSeq(str, 1, Len(prefix)) = prefix

\* resolve(process.cwd(), 'output')
outputDir == resolve([kind |-> "string", abs |-> FALSE, segs |-> <<OutName>>])

\* !filePath: undefined or the empty string
NoFilePath(path) ==
    \/ path.kind = "missing"
    \/ ~path.abs /\ path.segs = <<>>

\* mutant: the prefix is compared without the separator
AllowedByName(resolvedPath) ==
    \/ startsWith(Render(resolvedPath), Render(outputDir))
    \/ Render(resolvedPath) = Render(outputDir)

\* the check of lines 20 and 58
Allowed(resolvedPath) ==
    \/ startsWith(Render(resolvedPath), Render(outputDir) \o <<"/">>)
    \/ Render(resolvedPath) = Render(outputDir)

ReaderStart ==
    /\ \E q \in Queries : reader = [NoReader EXCEPT !.pc = "request", !.query = q]
    /\ resolver = NoResolver
    /\ body = NotAnArray
    /\ pc = "validate"
    /\ results = <<>>
    /\ visited = {}
    /\ queue = <<>>
    /\ baseDomains = {}
    /\ item = NoItem
    /\ links = <<>>
    /\ idx = 0
    /\ response = NoResponse
    /\ enqueued = <<>>
    /\ fetched = <<>>
    /\ resolved = 0
    /\ lastStep = "start"
    /\ isRunning = FALSE
    /\ web = OpenWeb
    /\ self = 1
    /\ peers = <<>>
    /\ UiAtRest

\* the state of the crawl handler before a request
CrawlAtRest ==
    /\ resolver = NoResolver
    /\ body = NotAnArray
    /\ pc = "validate"
    /\ results = <<>>
    /\ visited = {}
    /\ queue = <<>>
    /\ baseDomains = {}
    /\ item = NoItem
    /\ links = <<>>
    /\ idx = 0
    /\ response = NoResponse
    /\ enqueued = <<>>
    /\ fetched = <<>>
    /\ resolved = 0
    /\ lastStep = "start"
    /\ web = OpenWeb
    /\ self = 1
    /\ peers = <<>>

\* the variables of the crawl, of its invocations and of the resolver
crawlVars ==
    <<body, pc, results, visited, queue, baseDomains, item, links, idx, response,
      enqueued, fetched, resolved, lastStep, isRunning, web, self, peers, resolver>>

\* lines 9-14 and 47-52
PathRequired ==
    /\ reader.pc = "request"
    /\ NoFilePath(reader.query.path)
    /\ reader' = [reader EXCEPT !.pc = "done", !.statusCode = 400]
    /\ UNCHANGED <<crawlVars, uiVars>>

\* lines 17-25 and 55-63
AccessDenied ==
    /\ reader.pc = "request"
    /\ ~NoFilePath(reader.query.path)
    /\ ~Allowed(resolve(reader.query.path))
    /\ reader' = [reader EXCEPT !.pc = "done", !.statusCode = 403,
                                !.resolvedPath = resolve(reader.query.path)]
    /\ UNCHANGED <<crawlVars, uiVars>>

\* readFile returns: lines 27-29 and 65-75
FileRead ==
    /\ reader.pc = "request"
    /\ ~NoFilePath(reader.query.path)
    /\ Allowed(resolve(reader.query.path))
    /\ reader' = [reader EXCEPT
                      !.pc = "done", !.statusCode = 200,
                      !.resolvedPath = resolve(reader.query.path),
                      !.read = Render(resolve(reader.query.path)),
                      !.encoding = IF reader.query.base64 THEN "base64" ELSE "utf-8"]
    /\ UNCHANGED <<crawlVars, uiVars>>

\* readFile throws: lines 30-35 and 76-81
FileNotFound ==
    /\ reader.pc = "request"
    /\ ~NoFilePath(reader.query.path)
    /\ Allowed(resolve(reader.query.path))
    /\ reader' = [reader EXCEPT
                      !.pc = "done", !.statusCode = 404,
                      !.resolvedPath = resolve(reader.query.path),
                      !.read = Render(resolve(reader.query.path))]
    /\ UNCHANGED <<crawlVars, uiVars>>

ReaderNext == PathRequired \/ AccessDenied \/ FileRead \/ FileNotFound

ReadFileSpec == ReaderStart /\ [][ReaderNext]_vars

(***************************************************************************)
(* Properties of the crawl.                                                *)
(***************************************************************************)
Last(q) == q[Len(q)]

Range(q) == { q[i] : i \in 1..Len(q) }

\* the raw seeds that parse as absolute URLs
ValidSeeds ==
    { body.urls.items[i] : i \in { j \in 1..Len(body.urls.items) :
          body.urls.items[j].valid /\ body.urls.items[j].host # "" } }

\* the distinct seeds, fragment dropped
DistinctSeeds == { Url(u.host, u.path, "") : u \in ValidSeeds }

SeedHostnames == { u.host : u \in ValidSeeds }

\* C1: the number of LinkResult records never exceeds maxUrls, counting the
\* per-link records and the page-failure records of the catch block.
C1_ResultsWithinCap == Len(results) <= body.maxUrls

\* the cap is reached by a page-failure record that follows a link record
C1_Witness ==
    /\ lastStep = "fetchFailed"
    /\ Len(results) = body.maxUrls
    /\ Len(results) >= 2
    /\ \E i \in 1..Len(results) : results[i].error = NoError

\* C2: no normalized URL is pushed onto the frontier more than once, whether
\* it is a duplicate seed, found twice on a page or found on two pages.
C2_NoDuplicateEnqueue ==
    /\ \A i, j \in 1..Len(enqueued) :
          enqueued[i].url = enqueued[j].url => i = j
    /\ \A i \in 1..Len(enqueued) :
          enqueued[i].url.valid /\ enqueued[i].url.hash = ""
    /\ \A i \in 1..Len(enqueued) : enqueued[i].url \in visited

\* one internal target was found on two different pages below maxDepth of a
\* recursive crawl and stands in the history of the frontier once
C2_Witness ==
    /\ body.recursive
    /\ \E i, j \in 1..Len(results) :
          /\ i < j
          /\ results[i].targetUrl = results[j].targetUrl
          /\ results[i].sourceUrl # results[j].sourceUrl
          /\ results[i].type = "internal" /\ results[j].type = "internal"
          /\ results[i].sourceUrl # results[i].targetUrl
          /\ results[j].depth < body.maxDepth
          /\ Cardinality({ k \in 1..Len(enqueued) :
                             enqueued[k].url = results[i].targetUrl }) = 1

\* C3: breadth first -- the depth along the result sequence and along the
\* fetched pages never decreases, and while a record of depth d+1 exists no
\* page of depth d or less waits in the frontier or is being expanded.
C3_BreadthFirst ==
    /\ \A i, j \in 1..Len(results) :
          i <= j => results[i].depth <= results[j].depth
    /\ \A i, j \in 1..Len(fetched) :
          i <= j => fetched[i].depth <= fetched[j].depth
    /\ \A i \in 1..Len(results), k \in 1..Len(queue) :
          queue[k].depth >= results[i].depth
    /\ \A i \in 1..Len(results) :
          pc \in {"sleep", "fetch", "for", "resolve", "linkSleep"}
             => item.depth >= results[i].depth

\* a record of depth 1 was appended after two pages of depth 0 were fetched
C3_Witness ==
    /\ body.recursive
    /\ Len(results) >= 2
    /\ results[1].depth = 0
    /\ Last(results).depth = 1
    /\ Cardinality({ i \in 1..Len(fetched) : fetched[i].depth = 0 }) >= 2

\* C4: with sameDomainOnly=true every item in the frontier, and every item
\* ever enqueued, has the hostname of a seed URL.
C4_DomainScoping ==
    body.sameDomainOnly =>
       /\ \A i \in 1..Len(enqueued) : hostname(enqueued[i].url) \in SeedHostnames
       /\ \A k \in 1..Len(queue) : hostname(queue[k].url) \in SeedHostnames

\* a link of a seed host was enqueued at depth 1 and a link to another host
\* was recorded and left out
C4_Witness ==
    /\ body.sameDomainOnly
    /\ \E i \in 1..Len(enqueued) : enqueued[i].depth = 1
    /\ \E i \in 1..Len(results) :
          /\ hostname(results[i].targetUrl) \notin SeedHostnames
          /\ \A k \in 1..Len(enqueued) : enqueued[k].url # results[i].targetUrl

\* C5: with recursive=false the frontier is never longer than the number of
\* distinct valid seeds and no item of depth above 0 is ever enqueued.
C5_NonRecursive ==
    ~body.recursive =>
       /\ Len(queue) <= Cardinality(DistinctSeeds)
       /\ Len(enqueued) <= Cardinality(DistinctSeeds)
       /\ \A i \in 1..Len(enqueued) : enqueued[i].depth = 0

\* an internal link to a page not yet visited was recorded with recursive=false
C5_Witness ==
    /\ ~body.recursive
    /\ body.maxDepth > 0
    /\ \E i \in 1..Len(results) :
          /\ results[i].type = "internal"
          /\ results[i].error = NoError
          /\ results[i].targetUrl \notin visited

\* C6: a discovered link is pushed only if recursive is true, the link is
\* internal, the page's depth is below maxDepth, the target is not in
\* visited and, with sameDomainOnly, its hostname is a seed hostname; it is
\* pushed at the page's depth + 1 and added to visited in the same step.
C6_EnqueueOnlyIf ==
    [][ (pc # "validate" /\ (enqueued' # enqueued \/ Len(queue') > Len(queue)))
        => /\ pc = "resolve"
           /\ body.recursive
           /\ links[idx].isInternal
           /\ item.depth < body.maxDepth
           /\ links[idx].targetUrl \notin visited
           /\ ~body.sameDomainOnly
                 \/ hostname(links[idx].targetUrl) \in SeedHostnames
           /\ queue' = Append(queue, [url   |-> links[idx].targetUrl,
                                      depth |-> item.depth + 1])
           /\ enqueued' = Append(enqueued, [url   |-> links[idx].targetUrl,
                                            depth |-> item.depth + 1])
           /\ visited' = visited \cup {links[idx].targetUrl} ]_vars

\* a link was just pushed at maxDepth under sameDomainOnly
C6_Witness ==
    /\ lastStep = "resolved"
    /\ body.sameDomainOnly
    /\ Len(queue) > 0
    /\ Last(queue) = [url |-> links[idx].targetUrl, depth |-> item.depth + 1]
    /\ Last(enqueued) = Last(queue)
    /\ item.depth + 1 = body.maxDepth
    /\ Last(results).targetUrl = links[idx].targetUrl

\* C7: when the fetch of a dequeued page fails, exactly one LinkResult is
\* appended, with targetUrl the page URL, status 0, an empty redirectChain
\* and a non-empty error; no link is processed and the loop is back at its
\* condition.
C7_PageFailureRecord ==
    [][ (pc = "fetch" /\ pc' # "for")
        => /\ Len(results') = Len(results) + 1
           /\ SubSeq(results', 1, Len(results)) = results
           /\ Last(results').targetUrl = item.url
           /\ Last(results').status = 0
           /\ Last(results').redirectChain = ""
           /\ Last(results').error \notin {NoError, ""}
           /\ Last(results').depth = item.depth
           /\ resolved' = resolved
           /\ UNCHANGED <<queue, visited, enqueued, links, idx>>
           /\ pc' = "while" ]_vars

\* the fetch of a page of depth 1 has just failed, after a page that succeeded
C7_Witness ==
    /\ lastStep = "fetchFailed"
    /\ pc = "while"
    /\ item.depth = 1
    /\ Len(results) >= 2
    /\ results[1].error = NoError
    /\ Last(results).targetUrl = item.url
    /\ Last(results).status = 0

\* the links of the current page the for-of loop is done with
Processed == IF pc = "linkSleep" THEN idx ELSE idx - 1

\* C8: for a page fetched successfully one LinkResult is appended per link,
\* in markup order, with sourceUrl the page URL; the loop over the links
\* ends only after the last link or on the cap, also after a link whose
\* resolution failed.
C8_OneResultPerLink ==
    (pc \in {"for", "resolve", "linkSleep"} \/ lastStep = "endLinks")
    => /\ Processed <= Len(links)
       /\ Len(results) = Last(fetched).at + Processed
       /\ \A i \in 1..Processed :
             /\ results[Last(fetched).at + i].sourceUrl = item.url
             /\ results[Last(fetched).at + i].targetUrl = links[i].targetUrl
             /\ results[Last(fetched).at + i].anchorText = links[i].anchorText
             /\ results[Last(fetched).at + i].depth = item.depth
       /\ lastStep = "endLinks"
             => Processed = Len(links) \/ Len(results) >= body.maxUrls

\* a page of two links is done, the cap not reached before either link: the
\* first resolution failed, the second link has its record all the same
C8_Witness ==
    /\ lastStep = "endLinks"
    /\ Len(links) = 2
    /\ Len(results) = 2
    /\ Last(fetched).at = 0
    /\ results[1].status = 0 /\ results[1].error # NoError
    /\ results[1].targetUrl = links[1].targetUrl
    /\ results[2].error = NoError
    /\ results[2].targetUrl = links[2].targetUrl

\* a failure has just been recorded: the fetch of a page failed, or the
\* resolution of a link reported an error
FailureRecorded ==
    \/ lastStep = "fetchFailed"
    \/ lastStep = "resolved" /\ Last(results).error # NoError

\* some record of the result sequence carries an error
FailureVisible == \E i \in 1..Len(results) : results[i].error # NoError

\* a failure ends neither the loop nor the handler, and the loop ends only on
\* an empty frontier or on the cap
FailureIsLocal ==
    /\ lastStep = "fetchFailed"
          => pc = "while" /\ response = NoResponse /\ Last(results).error # NoError
    /\ lastStep = "resolved" => pc = "linkSleep" /\ response = NoResponse
    /\ FailureRecorded => FailureVisible
    /\ lastStep = "dequeued"
          => pc \in {"sleep", "fetch"} /\ item \notin Range(queue)
    /\ lastStep \in {"fetched", "fetchFailed"}
          => Last(fetched).url = item.url /\ Last(fetched).depth = item.depth
    /\ pc = "done" => Len(queue) = 0 \/ Len(results) >= body.maxUrls

\* C9, as stated: after any failure of a page fetch or of a link
\* resolution, if the frontier is non-empty and the result count is below
\* maxUrls, the next frontier item is eventually dequeued and fetched, and
\* the failure is visible as a LinkResult with error populated.
C9_AsStated ==
    /\ (FailureRecorded /\ Len(queue) > 0 /\ Len(results) < body.maxUrls)
          ~> (lastStep = "dequeued")
    /\ (lastStep = "dequeued") ~> (lastStep \in {"fetched", "fetchFailed"})
    /\ [](FailureRecorded => FailureVisible)

\* C9, amended: a failure never ends the crawl and is visible as a
\* LinkResult with error populated; whenever the loop condition is
\* evaluated after a failure with a non-empty frontier and a result count
\* below maxUrls, the next frontier item is eventually dequeued and fetched.
C9_FailuresDoNotEndCrawl ==
    /\ (pc = "while" /\ FailureVisible /\ Len(queue) > 0
           /\ Len(results) < body.maxUrls)
          ~> (lastStep = "dequeued")
    /\ (lastStep = "dequeued") ~> (lastStep \in {"fetched", "fetchFailed"})
    /\ []FailureIsLocal

\* the fetch of the first page failed and the next page has been fetched
C9_Witness ==
    /\ lastStep = "fetched"
    /\ Len(fetched) = 2
    /\ Len(results) = 1
    /\ results[1].status = 0 /\ results[1].error # NoError
    /\ results[1].targetUrl = fetched[1].url
    /\ item.url = fetched[2].url

C11_NoDequeueAfterStop ==
    [][ ~isRunning => ~(pc = "while" /\ pc' \in {"sleep", "fetch"}) ]_vars

C13_StatsAtTermination ==
    pc = "done" =>
        /\ response.stats.totalLinks = Len(results)
        /\ response.stats.totalLinks = Len(response.results)
        /\ response.stats.visited = Cardinality(visited)
        /\ response.stats.remaining = Len(queue)
        /\ response.stats.remaining > 0 => Len(results) >= body.maxUrls

\* a crawl that stopped on the cap with pages left in the frontier
C13_Witness ==
    /\ pc = "done"
    /\ response.stats.remaining > 0
    /\ response.stats.totalLinks = 2
    /\ response.stats.visited >= 2

\* a crawl of one seed that has returned, whose page held more links than
\* maxUrls, every one of them resolved without error
OneSeedOverCap ==
    /\ pc = "done"
    /\ body.urls.kind = "array"
    /\ Len(body.urls.items) = 1
    /\ Len(fetched) = 1
    /\ Len(links) > body.maxUrls
    /\ \A i \in 1..Len(results) : results[i].error = NoError

\* the results are the first maxUrls links of the page, in markup order
FirstLinksInOrder ==
    /\ Len(results) = body.maxUrls
    /\ \A i \in 1..Len(results) :
          /\ results[i].sourceUrl = fetched[1].url
          /\ results[i].targetUrl = links[i].targetUrl

\* C14 as stated: remaining counts the frontier items and the links of the
\* page that the cap left unprocessed.
C14_AsStated ==
    OneSeedOverCap =>
        /\ FirstLinksInOrder
        /\ response.stats.remaining = Len(queue) + (Len(links) - body.maxUrls)

\* C14: a crawl of one seed whose page holds more than maxUrls links, all
\* resolving, returns exactly maxUrls results, the first maxUrls links in
\* markup order; remaining is the number of frontier items only, each the
\* target of one of these results, and the links the cap left unprocessed
\* are not counted.
C14_CapOnOnePage ==
    OneSeedOverCap =>
        /\ FirstLinksInOrder
        /\ response.stats.remaining = Len(queue)
        /\ response.stats.remaining <= body.maxUrls
        /\ \A i \in 1..Len(queue) :
              \E j \in 1..Len(results) : queue[i].url = results[j].targetUrl

\* one link of two was processed and its target waits in the frontier
C14_Witness ==
    /\ OneSeedOverCap
    /\ Len(links) = 2
    /\ Len(results) = 1
    /\ response.stats.remaining = 1

\* the pages taken from the frontier so far: each one is fetched
Dequeued == Len(enqueued) - Len(queue)

Terminated == pc \in {"done", "rejected"}

\* C15: when every fetch and every resolver call returns or throws the crawl
\* terminates; it fetches at most (distinct valid seeds + maxUrls) pages, and
\* at its exit the frontier is empty or the result count has reached maxUrls.
C15_Terminates ==
    /\ <>Terminated
    /\ [](pc # "validate" /\ pc # "rejected"
            => Dequeued <= Cardinality(DistinctSeeds) + body.maxUrls)
    /\ [](pc = "done" => Len(queue) = 0 \/ Len(results) >= body.maxUrls)

\* a crawl that ended after fetching more pages than maxUrls: two seeds and
\* one page found by following a link
C15_Witness ==
    /\ pc = "done"
    /\ body.maxUrls = 2
    /\ Len(fetched) = 3
    /\ Dequeued = 3
    /\ Cardinality(DistinctSeeds) = 2

\* C16: invocations of the crawl that run interleaved at their awaits never
\* read or write each other's frontier, visited set or results: a step of
\* one leaves the state of the others as it was, and each ends with the
\* results and stats of the same request run alone on the same network.
C16_InvocationsIsolated ==
    /\ [](\A i \in DOMAIN peers \ {3} :
            (Ended(Loc(i)) /\ Ended(Loc(3)) /\ Loc(i).body = Loc(3).body)
                => Loc(i).response = Loc(3).response)
    /\ [][ \A i \in DOMAIN peers :
            (i # self /\ i # self') => peers'[i] = peers[i] ]_vars

\* invocation 1 has ended with two results while invocation 2, with another
\* request, is suspended inside its loop and invocation 3 has run alone
C16_Witness ==
    /\ peers # <<>>
    /\ self = 1
    /\ pc = "done"
    /\ Len(response.results) = 2
    /\ peers[2].body # body
    /\ peers[2].pc = "linkSleep"
    /\ Len(peers[2].results) = 1
    /\ peers[3].pc = "done"
    /\ peers[3].response = response

\* the results of the k-th page fetched: from FirstOf(k) to LastOf(k)
FirstOf(k) == fetched[k].at + 1
LastOf(k) == IF k < Len(fetched) THEN fetched[k + 1].at ELSE Len(results)

\* the records are grouped by source page, the pages in the order they
\* entered and left the queue, the links of the page at hand in markup order
GroupedInOrder ==
    /\ \A k \in 1..Len(fetched) :
          /\ fetched[k].url = enqueued[k].url
          /\ \A n \in FirstOf(k)..LastOf(k) : results[n].sourceUrl = fetched[k].url
    /\ (pc \in {"for", "resolve", "linkSleep"} /\ fetched # <<>>) =>
          \A n \in FirstOf(Len(fetched))..Len(results) :
              results[n].targetUrl = links[n - Last(fetched).at].targetUrl

\* C17: two runs of the crawl with the same request and the same network
\* responses return identical result sequences; the records are grouped by
\* source page in the order the pages left the FIFO frontier and follow the
\* order of the links in the markup within one page.
C17_Deterministic ==
    /\ \A i, j \in DOMAIN peers :
          (Loc(i).pc = "done" /\ Loc(j).pc = "done" /\ Loc(i).body = Loc(j).body)
              => Loc(i).response.results = Loc(j).response.results
    /\ GroupedInOrder

\* two runs of one request have ended with the same two results, taken from
\* two pages
C17_Witness ==
    /\ peers # <<>>
    /\ self # 3
    /\ pc = "done"
    /\ peers[3].pc = "done"
    /\ peers[3].body = body
    /\ Len(results) = 2
    /\ results[1].sourceUrl # results[2].sourceUrl
    /\ peers[3].response.results = results

\* C18: the record of a link whose resolution passes through redirects keeps
\* as targetUrl the URL that was discovered, never the destination; its
\* status is the final status of the chain, its redirectChain the formatted
\* hop list, its type the link's classification.  For https://a.test/b
\* answering 301 to https://a.test/ answering 200 the record has targetUrl
\* https://a.test/b and status 200.
C18_RedirectedLinkRecord ==
    lastStep = "resolved" =>
        LET r == Last(results)
            link == links[idx]
        IN  /\ r.targetUrl = link.targetUrl
            /\ r.type = (IF link.isInternal THEN "internal" ELSE "external")
            /\ \E net \in NetsAt :
                  LET info == getRedirectChain(link.targetUrl, net)
                  IN  /\ r.status = info.finalStatus
                      /\ r.redirectChain = formatRedirectChain(info.chain)
                      /\ Len(info.chain) > 1 =>
                            /\ r.status = Last(info.chain).status
                            /\ r.targetUrl = info.chain[1].url
                            /\ r.targetUrl # Last(info.chain).url
            /\ r.redirectChain = "https://a.test/b (301) -> https://a.test/ (200)"
                  => /\ Href(r.targetUrl) = "https://a.test/b"
                     /\ r.status = 200
                     /\ r.type = "internal"

\* the link https://a.test/b was resolved through its redirect
C18_Witness ==
    /\ lastStep = "resolved"
    /\ Last(results).redirectChain = "https://a.test/b (301) -> https://a.test/ (200)"
    /\ Last(results).status = 200
    /\ Href(Last(results).targetUrl) = "https://a.test/b"

\* the i-th request of the resolution was answered by a redirect to a URL
\* requested before, or to its own URL
PointsBack(i) ==
    LET u == resolver.requests[i]
        r == resolver.net[u]
    IN  /\ ~r.failed
        /\ r.status \in 300..399
        /\ \E j \in 1..i : normalizeUrl(r.location, u) = resolver.requests[j]

\* C19: a redirect to a URL that already occurred in the chain ends the
\* resolution at once with the error "redirect loop", no further request is
\* issued, and no resolution requests the same URL twice.
C19_RedirectLoop ==
    /\ \A i, j \in 1..Len(resolver.requests) :
          i # j => resolver.requests[i] # resolver.requests[j]
    /\ \A i \in 1..Len(resolver.requests) :
          PointsBack(i) => /\ i = Len(resolver.requests)
                           /\ resolver.pc = "done"
                           /\ resolver.out.error = "redirect loop"
    /\ resolver.out.error = "redirect loop"
          => /\ Len(resolver.requests) <= MaxRedirects
             /\ PointsBack(Len(resolver.requests))

\* the third request was answered by a redirect to the second URL
C19_Witness ==
    /\ resolver.pc = "done"
    /\ Len(resolver.requests) = 3
    /\ resolver.out.error = "redirect loop"
    /\ normalizeUrl(resolver.net[resolver.requests[3]].location, resolver.requests[3])
           = resolver.requests[2]

\* the request at the ceiling was answered by a redirect to a new URL
OverCeiling ==
    /\ Len(resolver.requests) = MaxRedirects
    /\ LET u == resolver.requests[MaxRedirects]
           r == resolver.net[u]
       IN  /\ ~r.failed
           /\ r.status \in 300..399
           /\ normalizeUrl(r.location, u) # Null
           /\ ~PointsBack(MaxRedirects)

\* C20: the resolution of a link terminates; a chain of redirects longer
\* than the hop ceiling ends with the error "too many redirects" and the
\* status of the last observed hop, the 10th, as finalStatus, and no
\* resolution issues more requests than the ceiling.
C20_ResolutionTerminates ==
    /\ <>(resolver.pc = "done")
    /\ [](Len(resolver.requests) <= MaxRedirects)
    /\ [](OverCeiling =>
            /\ resolver.pc = "done"
            /\ resolver.out.error = "too many redirects"
            /\ resolver.out.finalStatus
                   = resolver.net[resolver.requests[MaxRedirects]].status
            /\ Len(resolver.out.chain) = MaxRedirects)
    /\ [](resolver.out.error = "too many redirects" => OverCeiling)
    /\ [](resolver.pc = "done"
            => resolver.out = getRedirectChain(resolver.requests[1], resolver.net))

\* a line of eleven redirects was given up after ten requests
C20_Witness ==
    /\ resolver.pc = "done"
    /\ resolver.net = Line(11)
    /\ Len(resolver.requests) = 10
    /\ resolver.out.error = "too many redirects"
    /\ resolver.out.finalStatus = Moved(9)

\* the errors of the transport: what a request that gets no response reports
TransportErrors ==
    UNION { { net[u].error : u \in { v \in Urls : net[v].failed } } : net \in Nets }

\* the link at hand was resolved on a network whose first request failed
FirstRequestFailed ==
    /\ lastStep = "resolved"
    /\ \E net \in NetsAt :
          /\ net[links[idx].targetUrl].failed
          /\ Last(results) = LinkResultOf(item, links[idx],
                                 getRedirectChain(links[idx].targetUrl, net))

\* C21: a transport failure at any hop of a resolution ends it with
\* finalStatus 0 and the error of the transport; when the first request
\* fails the link yields one LinkResult with status 0, the error and an
\* empty redirectChain, and the following links of the page are processed.
C21_TransportFailure ==
    /\ [](lastStep = "resolved" /\ Last(results).error \in TransportErrors
            => Last(results).status = 0)
    /\ [](FirstRequestFailed
            => /\ Last(results).status = 0
               /\ Last(results).error \in TransportErrors
               /\ Last(results).redirectChain = ""
               /\ Last(results).targetUrl = links[idx].targetUrl
               /\ Len(results) = Last(fetched).at + idx)
    /\ \A n \in 1..MaxLinks :
          (FirstRequestFailed /\ idx = n /\ n < Len(links) /\ ~CapReached)
              ~> (pc = "resolve" /\ idx = n + 1)

\* the first link of a page failed at its first request and the second link
\* of the page has been resolved
C21_Witness ==
    /\ lastStep = "resolved"
    /\ idx = 2
    /\ Len(results) = Last(fetched).at + 2
    /\ results[Len(results) - 1].status = 0
    /\ results[Len(results) - 1].redirectChain = ""
    /\ results[Len(results) - 1].error = "fetch failed"
    /\ results[Len(results) - 1].sourceUrl = Last(results).sourceUrl

\* a failure at the second hop: the chain holds the redirect, the status is 0
C21_LaterHopWitness ==
    /\ lastStep = "resolved"
    /\ Last(results).status = 0
    /\ Last(results).error = "fetch failed"
    /\ Last(results).redirectChain = "https://a.test/b (301)"

FailedFetches ==
    { k \in 1..Len(fetched) :
        /\ fetched[k].at < Len(results)
        /\ results[fetched[k].at + 1] \in
              { FailureResult([url |-> fetched[k].url, depth |-> fetched[k].depth],
                              ErrorMessage(e)) : e \in Thrown } }

\* C23: there is no retry.  A URL is fetched as a page at most once, also
\* after its fetch failed, and each occurrence of a link triggers exactly
\* one call of the resolver, whatever that call reported.
C23_NoRetry ==
    /\ [](\A i, j \in 1..Len(fetched) : i # j => fetched[i].url # fetched[j].url)
    /\ [](pc \in {"sleep", "fetch"}
            => \A k \in 1..Len(fetched) : fetched[k].url # item.url)
    /\ [](resolved + Cardinality(FailedFetches) = Len(results))
    /\ [](pc = "resolve" => Len(results) = Last(fetched).at + idx - 1)
    /\ [][ /\ resolved' # resolved =>
                /\ resolved' = resolved + 1
                /\ pc = "resolve" /\ pc' = "linkSleep"
                /\ Len(results') = Len(results) + 1
           /\ pc = "linkSleep" => idx' = idx + 1
           /\ (pc = "fetch" /\ pc' = "while") => queue' = queue
         ]_vars

\* a link whose resolution failed and then a page whose fetch failed: two
\* pages fetched, one resolver call, two records
C23_Witness ==
    /\ lastStep = "fetchFailed"
    /\ Len(fetched) = 2
    /\ Cardinality(FailedFetches) = 1
    /\ resolved = 1
    /\ \E n \in 1..Len(results) : results[n].error # NoError /\ results[n].anchorText # ""

\* the URLs pushed onto the queue by the step at hand
NewlyEnqueued == { enqueued'[k].url : k \in (Len(enqueued) + 1)..Len(enqueued') }

\* C24: every URL in the frontier is in the visited set.  A URL enters the
\* visited set in the step that enqueues it, the seeds at initialisation and
\* a link at the re-enqueue decision, never at dequeue or after processing,
\* and the visited set never loses an element.
C24_FrontierIsVisited ==
    /\ [](\A i \in 1..Len(queue) : queue[i].url \in visited)
    /\ [](pc \in {"sleep", "fetch", "for", "resolve", "linkSleep"}
            => item.url \in visited)
    /\ [][ /\ visited \subseteq visited'
           /\ visited' \ visited = NewlyEnqueued
           /\ Len(queue') > Len(queue) =>
                 /\ pc \in {"validate", "resolve"}
                 /\ \A i \in (Len(queue) + 1)..Len(queue') : queue'[i].url \in NewlyEnqueued
         ]_vars

\* a seed and a link found on the first page wait in the frontier
C24_Witness ==
    /\ lastStep = "resolved"
    /\ Len(queue) = 2
    /\ queue[1].depth = 0
    /\ queue[2].depth = 1
    /\ Cardinality(visited) = 3

\* C25: every frontier item has a depth in 0..maxDepth: a seed has depth 0,
\* an enqueued link one more than the page it was found on; every
\* LinkResult carries the depth of its source page, so no result is deeper
\* than maxDepth.
C25_DepthBounded ==
    /\ [](\A i \in 1..Len(queue) : queue[i].depth \in 0..body.maxDepth)
    /\ [](lastStep = "seeded" => \A i \in 1..Len(queue) : queue[i].depth = 0)
    /\ [](\A k \in 1..Len(fetched) : \A n \in FirstOf(k)..LastOf(k) :
              /\ results[n].depth = fetched[k].depth
              /\ results[n].depth \in 0..body.maxDepth)
    /\ [][ (pc = "resolve" /\ Len(queue') > Len(queue))
              => /\ Last(queue').depth = item.depth + 1
                 /\ Last(queue').url = Last(results').targetUrl
                 /\ Last(results').depth = item.depth ]_vars

\* a link found on a page of depth 1: its record has depth 1 = maxDepth and
\* the link is not enqueued
C25_Witness ==
    /\ lastStep = "resolved"
    /\ body.maxDepth = 1
    /\ item.depth = 1
    /\ Last(results).depth = 1
    /\ \E k \in 1..Len(enqueued) : enqueued[k].depth = 1

\* the position in body.urls of the first seed that normalizes to u
FirstIndex(u) ==
    CHOOSE k \in 1..Len(body.urls.items) :
        /\ body.urls.items[k].valid
        /\ Url(body.urls.items[k].host, body.urls.items[k].path, "") = u
        /\ \A m \in 1..(k - 1) :
              ~(body.urls.items[m].valid
                /\ Url(body.urls.items[m].host, body.urls.items[m].path, "") = u)

\* C26: before the first dequeue the frontier holds each distinct valid
\* normalized seed exactly once, in input order and at depth 0, the visited
\* set holds exactly these URLs, and a seed that fails normalization is
\* skipped without an error and without a result record.
C26_Seeding ==
    lastStep = "seeded" =>
        /\ { queue[i].url : i \in 1..Len(queue) } = DistinctSeeds
        /\ Len(queue) = Cardinality(DistinctSeeds)
        /\ \A i \in 1..Len(queue) : queue[i].depth = 0
        /\ \A i, j \in 1..Len(queue) :
              i < j => FirstIndex(queue[i].url) < FirstIndex(queue[j].url)
        /\ visited = DistinctSeeds
        /\ results = <<>>
        /\ response = NoResponse
        /\ pc = "while"

\* three seeds, the third the first again without its fragment: two items
C26_Witness ==
    /\ lastStep = "seeded"
    /\ Len(body.urls.items) = 3
    /\ queue = << [url |-> Url("a.test", "/", ""), depth |-> 0],
                  [url |-> Url("b.test", "/", ""), depth |-> 0] >>

\* a seed that does not parse is skipped, the one after it is queued
C26_SkippedSeed ==
    /\ lastStep = "seeded"
    /\ body.urls.items = <<Null, Url("b.test", "/", "")>>
    /\ Len(queue) = 1
    /\ results = <<>>

\* C27: pages are processed one after the other.  The fetch of the next
\* frontier item starts only after every link check of the page at hand has
\* finished, so the records of one page are one contiguous block of the
\* results and the blocks of two pages never interleave.
C27_OnePageAtATime ==
    /\ [](\A a, b, c \in 1..Len(results) :
            (a < b /\ b < c /\ results[a].sourceUrl = results[c].sourceUrl)
                => results[b].sourceUrl = results[a].sourceUrl)
    /\ [](pc \in {"for", "resolve", "linkSleep"} => item.url = Last(fetched).url)
    /\ [][ (pc = "while" /\ pc' \in {"sleep", "fetch"})
              => \/ fetched = <<>>
                 \/ lastStep = "fetchFailed"
                 \/ /\ idx = Len(links) + 1
                    /\ Len(results) = Last(fetched).at + Len(links) ]_vars

\* the only link of the first page was checked and the second page is taken
\* from the queue
C27_Witness ==
    /\ lastStep = "dequeued"
    /\ Len(fetched) = 1
    /\ Len(links) = 1
    /\ idx = 2
    /\ Len(results) = 1
    /\ item.url # fetched[1].url

\* C28: the result sequence is append-only: a step of the crawl leaves the
\* records already appended as they are, in content and order, and adds at
\* most one record at the end; the response returns the sequence as it is.
C28_AppendOnly ==
    /\ [][ \/ results' = results
           \/ /\ Len(results') = Len(results) + 1
              /\ SubSeq(results', 1, Len(results)) = results ]_vars
    /\ [](pc = "done" => response.results = results)

\* a link record was appended behind the record of a failed page
C28_Witness ==
    /\ lastStep = "resolved"
    /\ Len(results) = 2
    /\ results[1] \in { FailureResult([url |-> fetched[1].url, depth |-> 0],
                                      ErrorMessage(e)) : e \in Thrown }
    /\ results[2].sourceUrl = fetched[2].url

\* the resolved path is the output directory or a path below it, name by name
Beneath(segs) ==
    /\ Len(segs) >= Len(outputDir)
    /\ SubSeq(segs, 1, Len(outputDir)) = outputDir

\* C29: api/read-file hands a path to readFile only when the resolved
\* request path is the output directory or lies beneath it.  Without a path
\* the answer is 400; a path that resolves outside the output directory,
\* through ".." or into a sibling whose name starts with the name of the
\* output directory, is answered 403 and nothing is read; a read that fails
\* inside the output directory is answered 404.
C29_ReadOnlyBelowOutput ==
    reader.pc = "done" =>
        /\ reader.read # <<>> => /\ Beneath(reader.resolvedPath)
                                 /\ reader.read = Render(reader.resolvedPath)
        /\ NoFilePath(reader.query.path) <=> reader.statusCode = 400
        /\ (~NoFilePath(reader.query.path) /\ ~Beneath(resolve(reader.query.path)))
              <=> reader.statusCode = 403
        /\ reader.statusCode \in {400, 403} => reader.read = <<>>
        /\ reader.statusCode \in {200, 404}
              => /\ Beneath(reader.resolvedPath)
                 /\ reader.read # <<>>
        /\ reader.statusCode \in {200, 400, 403, 404}

\* output/../output-old/a.json resolves into the sibling directory: 403
C29_Witness ==
    /\ reader.pc = "done"
    /\ reader.query.path.segs = <<OutName, DotDot, OtherName>>
    /\ ~reader.query.path.abs
    /\ reader.resolvedPath = <<AppName, OtherName>>
    /\ reader.statusCode = 403
    /\ reader.read = <<>>

\* a read below the output directory that failed: 404
C29_NotFound ==
    /\ reader.pc = "done"
    /\ reader.resolvedPath = <<AppName, OutName, FileName>>
    /\ reader.statusCode = 404

\* C30: a link is internal only when its hostname is that of the page it
\* was found on, so every URL ever placed in the frontier has a seed
\* hostname, also when sameDomainOnly is false: the same request with
\* sameDomainOnly true and false has the same frontier evolution and the
\* same results.
C30_ScopingRedundant ==
    /\ pc # "validate" =>
          \A k \in 1..Len(enqueued) : hostname(enqueued[k].url) \in SeedHostnames
    /\ pc = "resolve" =>
          (links[idx].isInternal => hostname(links[idx].targetUrl) \in baseDomains)
    /\ (peers # <<>> /\ Ended(Loc(1)) /\ Ended(Loc(2)))
          => /\ Loc(1).response = Loc(2).response
             /\ Loc(1).enqueued = Loc(2).enqueued
             /\ Loc(1).fetched = Loc(2).fetched
             /\ Loc(1).visited = Loc(2).visited

\* both requests have ended after following a link into the frontier
C30_Witness ==
    /\ peers # <<>>
    /\ self = 2
    /\ pc = "done"
    /\ ~body.sameDomainOnly
    /\ peers[1].pc = "done"
    /\ peers[1].body.sameDomainOnly
    /\ \E k \in 1..Len(enqueued) : enqueued[k].depth = 1
    /\ Len(results) = 2
    /\ peers[1].response = response

\* the pages whose fetch was attempted, the one in flight included
Attempted == Len(fetched) + (IF pc \in {"sleep", "fetch"} THEN 1 ELSE 0)

\* C31: no frontier item is lost or counted twice: the size of the visited
\* set is the number of items dequeued so far plus the length of the
\* frontier, so at termination stats.visited is the number of pages whose
\* fetch was attempted plus stats.remaining.
C31_VisitedAccounting ==
    /\ pc \notin {"validate", "rejected"}
          => Cardinality(visited) = Attempted + Len(queue)
    /\ pc = "done"
          => response.stats.visited = Len(fetched) + response.stats.remaining

\* three URLs visited: two pages fetched and one left in the frontier
C31_Witness ==
    /\ pc = "done"
    /\ response.stats.visited = 3
    /\ response.stats.remaining = 1
    /\ Len(fetched) = 2


(***************************************************************************)
(* pages/index.vue: the main page.  The refs of the page are the fields of *)
(* page and the variable isRunning.  Every call of startScraping is a run, *)
(* kept in page.runs with the locals of scrapeHtml or scrapeLinks and the  *)
(* await it is suspended at.  A step is one task of the browser: a click,  *)
(* an edit, or the continuation of a run after its request was answered.   *)
(***************************************************************************)
MaxRuns  == 2    \* most calls of startScraping on one page
MaxInput == 3    \* most lines in the URL field
MaxBatch == 2    \* largest number typed into settings.parallelRequests

PageUrl(k) == "https://u" \o ToString(k) \o ".test/"

NotAUrl == "kein-url"

\* the k-th line typed into the URL field: the second one is no URL
Entry(k) == IF k = 2 THEN NotAUrl ELSE PageUrl(k)

\* the texts of the URL field, line by line
Inputs == { [k \in 1..n |-> Entry(k)] : n \in 0..MaxInput }

IsUrl(line) == line # "" /\ line # NotAUrl

parseUrls(input) == SelectSeq(input, IsUrl)

parsedUrls == parseUrls(page.urlInput)

hasValidUrls == Len(parsedUrls) > 0

Min(a, b) == IF a < b THEN a ELSE b

\* what /api/scrape-html answers for one URL
HtmlOk(url) ==
    [url |-> url, status |-> 200, contentType |-> "text/html", size |-> 1, error |-> ""]

FetchError == "fetch failed"

\* what the catch of scrapeHtml pushes for one URL of the batch
HtmlError(url) ==
    [url |-> url, status |-> 0, contentType |-> "error", size |-> 0, error |-> FetchError]

\* the results pushed for a batch that was answered (lines 145-152)
OkResults(batch) == [k \in 1..Len(batch) |-> HtmlOk(batch[k])]

\* the results pushed for a batch whose request failed
ErrorResultsFirstOnly(batch) == <<HtmlError(batch[1])>>   \* one result for the whole batch

ErrorResults(batch) == [k \in 1..Len(batch) |-> HtmlError(batch[k])]

\* what /api/scrape-links answers: no link, or one link of the first URL
LinkAnswers(urls) ==
    { <<>>, <<[sourceUrl |-> urls[1], targetUrl |-> urls[1], status |-> 200]>> }

SavedFiles(mode) == <<mode \o ".json">>

NewRun(mode, urls, batchSize) ==
    [mode |-> mode, urls |-> urls, batchSize |-> batchSize, i |-> 0, results |-> <<>>,
     await |-> mode, stopped |-> FALSE, failed |-> {}]

\* runs whose request has not been answered yet
Pending == { r \in 1..Len(page.runs) : page.runs[r].await # "ended" }

\* the component's frame: what no step of the page touches
besidePage ==
    <<body, pc, results, visited, queue, baseDomains, item, links, idx, response,
      enqueued, fetched, resolved, lastStep, web, self, peers, resolver, reader,
      audit, shots, listing>>

PageInit ==
    /\ CrawlAtRest
    /\ reader = NoReader
    /\ isRunning = FALSE
    /\ page = NoPage
    /\ audit = NoAudit
    /\ shots = NoShots
    /\ listing = NoListing

\* the URL field (lines 284-288), disabled while isRunning
EditInput ==
    /\ ~isRunning
    /\ Len(page.runs) < MaxRuns
    /\ \E input \in Inputs \ {page.urlInput} :
          page' = [page EXCEPT !.urlInput = input]
    /\ UNCHANGED <<isRunning, besidePage>>

\* the mode radios (lines 295-299), disabled while isRunning
SelectMode ==
    /\ ~isRunning
    /\ Len(page.runs) < MaxRuns
    /\ page' = [page EXCEPT !.mode = IF @ = "html" THEN "links" ELSE "html"]
    /\ UNCHANGED <<isRunning, besidePage>>

\* the settings panel: parallelRequests.  scrapeHtml reads it when a run
\* starts (line 129), so an edit made during a run is the same edit made
\* after it
SetParallel ==
    /\ ~isRunning
    /\ Len(page.runs) < MaxRuns
    /\ \E n \in ((0..MaxBatch) \cup {DefaultBatch}) \ {page.parallelRequests} :
          page' = [page EXCEPT !.parallelRequests = n]
    /\ UNCHANGED <<isRunning, besidePage>>

\* startScraping (lines 96-124) up to its first await, with the start of
\* scrapeHtml (lines 127-143) or scrapeLinks (lines 178-190)
startScraping ==
    /\ ~(~hasValidUrls \/ isRunning)
    /\ Len(page.runs) < MaxRuns
    /\ isRunning' = TRUE
    /\ LET batchSize == IF page.parallelRequests = 0 THEN DefaultBatch
                        ELSE page.parallelRequests
       IN  page' = [page EXCEPT
                !.error = "",
                !.htmlResults = <<>>,
                !.linkResults = <<>>,
                !.savedFiles = <<>>,
                !.logs = <<>>,
                !.progress = [done |-> 0, total |-> Len(parsedUrls)],
                !.runs = Append(@, NewRun(page.mode, parsedUrls, batchSize))]
    /\ UNCHANGED besidePage

\* stopScraping (lines 219-222), behind the Stop button shown while isRunning
\* (lines 316-319); stopped is history: the runs under way when it was pressed
StopClicked ==
    /\ isRunning
    /\ isRunning' = FALSE
    /\ page' = [page EXCEPT
          !.logs = Append(@, "Abgebrochen"),
          !.stops = @ + 1,
          !.runs = [r \in 1..Len(@) |->
                       IF r \in Pending THEN [@[r] EXCEPT !.stopped = TRUE] ELSE @[r]]]
    /\ UNCHANGED besidePage

\* scrapeHtml (lines 144-174): a batch request was answered (ok) or failed,
\* and the loop goes on to the next batch or to saveResults
HtmlBatch(r, ok) ==
    /\ r \in Pending
    /\ page.runs[r].await = "html"
    /\ LET run     == page.runs[r]
           urls    == run.urls
           last    == Min(run.i + run.batchSize, Len(urls))
           batch   == SubSeq(urls, run.i + 1, last)
           pushed  == IF ok THEN OkResults(batch) ELSE ErrorResults(batch)
           all     == run.results \o pushed
           more    == run.i + run.batchSize < Len(urls)
       IN  page' = [page EXCEPT
                !.progress.done = last,
                !.htmlResults = all,
                !.runs[r] = [run EXCEPT
                     !.results = all,
                     !.i = run.i + run.batchSize,
                     !.failed = IF ok THEN @ ELSE @ \cup ((run.i + 1)..last),
                     !.await = IF more THEN "html" ELSE "save"]]
    /\ UNCHANGED <<isRunning, besidePage>>

\* startScraping after its await (lines 115-123): the run ends
RunEnded(run) == [run EXCEPT !.await = "ended"]

\* scrapeLinks (lines 192-200) and saveResults (lines 203-204): the request
\* was answered; an empty result is not saved and the run ends (line 115)
LinksResponse(r) ==
    /\ r \in Pending
    /\ page.runs[r].await = "links"
    /\ \E found \in LinkAnswers(page.runs[r].urls) :
          /\ page' = [page EXCEPT
                !.linkResults = found,
                !.progress = [done |-> Len(found), total |-> Len(found)],
                !.logs = IF found = <<>> THEN Append(@, "Fertig!") ELSE @,
                !.runs[r] = IF found = <<>> THEN RunEnded(@)
                            ELSE [@ EXCEPT !.results = found, !.await = "save"]]
          /\ isRunning' = IF found = <<>> THEN FALSE ELSE isRunning
    /\ UNCHANGED besidePage

\* a request of scrapeLinks or saveResults failed: catch and finally of
\* startScraping (lines 116-123)
RequestFails(r) ==
    /\ r \in Pending
    /\ page.runs[r].await \in {"links", "save"}
    /\ page' = [page EXCEPT
          !.error = FetchError,
          !.logs = Append(@, FetchError),
          !.runs[r] = RunEnded(@)]
    /\ isRunning' = FALSE
    /\ UNCHANGED besidePage

\* saveResults (lines 205-216) and the end of startScraping (lines 115-123)
SaveResponse(r) ==
    /\ r \in Pending
    /\ page.runs[r].await = "save"
    /\ page' = [page EXCEPT
          !.savedFiles = SavedFiles(page.runs[r].mode),
          !.logs = Append(@, "Fertig!"),
          !.runs[r] = RunEnded(@)]
    /\ isRunning' = FALSE
    /\ UNCHANGED besidePage

PageNext ==
    \/ EditInput
    \/ SelectMode
    \/ SetParallel
    \/ startScraping
    \/ StopClicked
    \/ \E r \in 1..MaxRuns : HtmlBatch(r, TRUE)
    \/ \E r \in 1..MaxRuns : HtmlBatch(r, FALSE)
    \/ \E r \in 1..MaxRuns : LinksResponse(r)
    \/ \E r \in 1..MaxRuns : RequestFails(r)
    \/ \E r \in 1..MaxRuns : SaveResponse(r)

PageSpec == PageInit /\ [][PageNext]_vars


(***************************************************************************)
(* Claims about the main page.                                             *)
(***************************************************************************)

\* C32: at most one scrape run is active at any time: under every
\* interleaving of Go clicks, Stop clicks and server responses no run is
\* started while the request of an earlier run is still pending.
C32_OneRunAtATime == Cardinality(Pending) <= 1

\* C33: after Stop was pressed during a run, that run has no further effect:
\* its late response overwrites neither linkResults nor htmlResults, triggers
\* no save-results request and logs no completion.
C33_StoppedRunHasNoEffect ==
    [][\A r \in Pending :
          (page.runs[r].stopped /\ page'.runs[r] # page.runs[r])
             => /\ page'.linkResults = page.linkResults
                /\ page'.htmlResults = page.htmlResults
                /\ page'.runs[r].await # "save"
                /\ page'.logs = page.logs]_vars


MaxAudits == 3    \* most calls of runAudit in one behaviour

\* addToHistory keeps the newest 20 entries (lines 95-97)
HistoryCap == 20

\* the entries shown with their re-run button (history.slice(0, 5), line 347)
HistoryShown == 5

\* what onMounted finds in localStorage (lines 71-78): nothing, or one audit
StoredHistories == { <<>>, <<[urls |-> <<PageUrl(1)>>]>> }

AuditOk(url) == [url |-> url, error |-> ""]

AuditRequest(r, urls, save) == [run |-> r, urls |-> urls, saveResults |-> save]

\* runAudit calls awaiting an answer
Auditing == { r \in 1..Len(audit.runs) : audit.runs[r].await # "ended" }

\* the finally of runAudit (lines 260-262)
AuditEnds(a, r) == [a EXCEPT !.isLoading = FALSE, !.runs[r].await = "ended"]

addToHistory(a, urls) ==
    LET all == <<[urls |-> urls]>> \o a.history
    IN  [a EXCEPT !.history = SubSeq(all, 1, Min(Len(all), HistoryCap))]

\* runAudit after its loop (lines 221-253): stats, history, the save request
AfterLoop(a, r) ==
    LET urls == parseUrls(a.urlInput)
        b    == addToHistory([a EXCEPT !.stats = <<[total |-> Len(a.results)]>>], urls)
    IN  IF b.saveResults /\ Len(b.results) > 0
        THEN [b EXCEPT !.requests = Append(@, AuditRequest(r, urls, TRUE)),
                       !.runs[r].await = "save"]
        ELSE AuditEnds([b EXCEPT !.logs = Append(@, "Done!")], r)

\* the head of the loop of runAudit (lines 187-204): the loop condition, the
\* test of the cancel flag, the request for the next URL
NextUrl(a, r) ==
    LET urls == parseUrls(a.urlInput)
        i    == a.runs[r].i
    IN  IF i < Len(urls)
        THEN IF a.isCancelled
             THEN AfterLoop([a EXCEPT !.logs = Append(@, "Cancelled")], r)
             ELSE [a EXCEPT !.requests = Append(@, AuditRequest(r, <<urls[i + 1]>>, FALSE)),
                            !.runs[r].await = "audit"]
        ELSE AfterLoop(a, r)

\* runAudit up to its first await (lines 168-204)
Begin(a) ==
    IF Len(parseUrls(a.urlInput)) = 0 THEN a
    ELSE NextUrl([a EXCEPT
                     !.isLoading = TRUE,
                     !.isCancelled = FALSE,
                     !.error = "",
                     !.results = <<>>,
                     !.logs = <<>>,
                     !.savedFiles = <<>>,
                     !.stats = <<>>,
                     !.runs = Append(@, [i |-> 0, await |-> "audit", stopped |-> FALSE])],
                 Len(a.runs) + 1)

loadFromHistory(a, e) == [a EXCEPT !.urlInput = a.history[e].urls]

besideAudit ==
    <<body, pc, results, visited, queue, baseDomains, item, links, idx, response,
      enqueued, fetched, resolved, lastStep, web, self, peers, resolver, reader,
      isRunning, page, shots, listing>>

AuditInit ==
    /\ CrawlAtRest
    /\ reader = NoReader
    /\ isRunning = FALSE
    /\ page = NoPage
    /\ audit \in { [NoAudit EXCEPT !.history = h] : h \in StoredHistories }
    /\ shots = NoShots
    /\ listing = NoListing

\* the URL field (lines 293-297), disabled while isLoading
AuditEditInput ==
    /\ ~audit.isLoading
    /\ Len(audit.runs) < MaxAudits
    /\ \E input \in Inputs \ {audit.urlInput} :
          audit' = [audit EXCEPT !.urlInput = input]
    /\ UNCHANGED besideAudit

\* the Auto-save checkbox (lines 307-312), disabled while isLoading
ToggleSave ==
    /\ ~audit.isLoading
    /\ Len(audit.runs) < MaxAudits
    /\ audit' = [audit EXCEPT !.saveResults = ~@]
    /\ UNCHANGED besideAudit

\* the Analyze button (lines 315-317), disabled while isLoading: runAudit
runAudit ==
    /\ ~(Len(parseUrls(audit.urlInput)) = 0 \/ audit.isLoading)
    /\ Len(audit.runs) < MaxAudits
    /\ audit' = Begin(audit)
    /\ UNCHANGED besideAudit

\* a click on an entry of the history (line 351)
LoadClicked(e) ==
    /\ e \in 1..Min(Len(audit.history), HistoryShown)
    /\ audit.urlInput # audit.history[e].urls
    /\ audit' = loadFromHistory(audit, e)
    /\ UNCHANGED besideAudit

\* the re-run button of an entry (line 358): rerunFromHistory (lines 109-114),
\* whose nextTick callback runs before the next task
rerunFromHistory(e) ==
    /\ e \in 1..Min(Len(audit.history), HistoryShown)
    /\ Len(audit.runs) < MaxAudits
    /\ audit' = Begin(loadFromHistory(audit, e))
    /\ UNCHANGED besideAudit

\* stopAudit (lines 117-120), behind the Stop button shown while isLoading
\* (lines 318-320); stopped is history: the calls under way when it was pressed
stopAudit ==
    /\ audit.isLoading
    /\ audit' = [audit EXCEPT
          !.isCancelled = TRUE,
          !.runs = [r \in 1..Len(@) |->
                       IF r \in Auditing THEN [@[r] EXCEPT !.stopped = TRUE] ELSE @[r]]]
    /\ UNCHANGED besideAudit

\* runAudit (lines 206-219): the request for one URL was answered
AuditAnswered(r) ==
    /\ r \in Auditing
    /\ audit.runs[r].await = "audit"
    /\ LET request == Last(SelectSeq(audit.requests, LAMBDA q : q.run = r))
       IN  audit' = NextUrl([audit EXCEPT
                                !.results = Append(@, AuditOk(request.urls[1])),
                                !.runs[r].i = @ + 1], r)
    /\ UNCHANGED besideAudit

\* runAudit (lines 240-252): the save request was answered
AuditSaved(r) ==
    /\ r \in Auditing
    /\ audit.runs[r].await = "save"
    /\ audit' = AuditEnds([audit EXCEPT
                              !.savedFiles = <<"seo-audit.json">>,
                              !.logs = Append(@, "Done!")], r)
    /\ UNCHANGED besideAudit

\* a request of runAudit failed: its catch and finally (lines 255-262)
AuditFails(r) ==
    /\ r \in Auditing
    /\ audit' = AuditEnds([audit EXCEPT
                              !.error = FetchError,
                              !.logs = Append(@, FetchError)], r)
    /\ UNCHANGED besideAudit

AuditNext ==
    \/ AuditEditInput
    \/ ToggleSave
    \/ runAudit
    \/ \E e \in 1..HistoryShown : LoadClicked(e)
    \/ \E e \in 1..HistoryShown : rerunFromHistory(e)
    \/ stopAudit
    \/ \E r \in 1..MaxAudits : AuditAnswered(r)
    \/ \E r \in 1..MaxAudits : AuditSaved(r)
    \/ \E r \in 1..MaxAudits : AuditFails(r)

AuditSpec == AuditInit /\ [][AuditNext]_vars

\* C34: at most one runAudit loop is active at a time: no audit is started,
\* through Analyze or through re-run from history, while another one is still
\* awaiting a response.
C34_OneAuditAtATime == Cardinality(Auditing) <= 1

\* C35: once stopAudit has set the cancel flag during an audit, that runAudit
\* call sends no further /api/seo-audit request.
C35_NoRequestAfterStop ==
    [][\A r \in Auditing :
          (audit.runs[r].stopped /\ audit'.runs[r] # audit.runs[r])
             => audit'.requests = audit.requests]_vars


(***************************************************************************)
(* Screenshots.vue and ImageScraper.vue.  takeScreenshots and scrapeImages *)
(* are the same loop: one request per URL, the cancel flag tested at the   *)
(* head of the loop, a failed request caught inside the loop.  The run can *)
(* only be started by its button, which is disabled while isLoading.       *)
(***************************************************************************)
MaxShotRuns == 2    \* most runs of one component in one behaviour

Components == {"screenshots", "images"}

\* what a request can come to: a result, a result with an error, or a
\* failure caught by the inner catch, which pushes an error result
ShotOutcomes == {"ok", "error", "thrown"}

ShotResult(url, outcome) ==
    [url |-> url, success |-> outcome = "ok",
     error |-> IF outcome = "ok" THEN ""
               ELSE IF outcome = "error" THEN "timeout" ELSE FetchError]

\* after the loop (Screenshots.vue 170-182, ImageScraper.vue 167-184)
AfterShots(c) ==
    LET summed == IF c.component = "screenshots"
                  THEN [c EXCEPT !.logs = Append(@, "successful")] ELSE c
        done   == IF ~summed.isCancelled
                  THEN [summed EXCEPT !.logs = Append(@, "Done!")] ELSE summed
    IN  [done EXCEPT !.isLoading = FALSE, !.await = FALSE]

\* the head of the loop (Screenshots.vue 113-125, ImageScraper.vue 116-129)
NextShot(c) ==
    LET urls == parseUrls(c.urlInput)
    IN  IF c.i < Len(urls)
        THEN IF c.isCancelled
             THEN AfterShots([c EXCEPT !.logs = Append(@, "Cancelled")])
             ELSE [c EXCEPT !.sent = Append(@, urls[c.i + 1]), !.await = TRUE]
        ELSE AfterShots(c)

besideShots ==
    <<body, pc, results, visited, queue, baseDomains, item, links, idx, response,
      enqueued, fetched, resolved, lastStep, web, self, peers, resolver, reader,
      isRunning, page, audit, listing>>

ShotsInit ==
    /\ CrawlAtRest
    /\ reader = NoReader
    /\ isRunning = FALSE
    /\ page = NoPage
    /\ audit = NoAudit
    /\ shots \in { [NoShots EXCEPT !.component = c] : c \in Components }
    /\ listing = NoListing

\* the URL field, disabled while isLoading (Screenshots.vue 232-236,
\* ImageScraper.vue 264-268)
ShotsEditInput ==
    /\ ~shots.isLoading
    /\ shots.runs < MaxShotRuns
    /\ \E input \in Inputs \ {shots.urlInput} :
          shots' = [shots EXCEPT !.urlInput = input]
    /\ UNCHANGED besideShots

\* the start of a run up to its first await
StartShots ==
    /\ ~(Len(parseUrls(shots.urlInput)) = 0 \/ shots.isLoading)
    /\ shots.runs < MaxShotRuns
    /\ shots' = NextShot([shots EXCEPT
                             !.isLoading = TRUE,
                             !.isCancelled = FALSE,
                             !.results = <<>>,
                             !.outputDir = "",
                             !.logs = <<>>,
                             !.i = 0,
                             !.runs = @ + 1,
                             !.sent = <<>>,
                             !.stopped = FALSE])
    /\ UNCHANGED besideShots

\* Screenshots.vue: takeScreenshots (lines 88-184) behind its button (272-276)
takeScreenshots == shots.component = "screenshots" /\ StartShots

\* ImageScraper.vue: scrapeImages (lines 93-194) behind its button (330-334)
scrapeImages == shots.component = "images" /\ StartShots

\* stopScreenshots (Screenshots.vue 83-86) and stopScraping (ImageScraper.vue
\* 88-91), behind the Stop button shown while isLoading
StopPressed ==
    /\ shots.isLoading
    /\ shots' = [shots EXCEPT !.isCancelled = TRUE, !.stopped = TRUE]
    /\ UNCHANGED besideShots

\* the request in flight comes to an end (Screenshots.vue 126-168,
\* ImageScraper.vue 131-164) and the loop goes on
ShotAnswered(outcome) ==
    /\ shots.await
    /\ shots' = NextShot([shots EXCEPT
                             !.results = Append(@, ShotResult(Last(shots.sent), outcome)),
                             !.outputDir = IF @ = "" /\ outcome # "thrown"
                                           THEN "output/run" ELSE @,
                             !.i = @ + 1])
    /\ UNCHANGED besideShots

ShotsNext ==
    \/ ShotsEditInput
    \/ takeScreenshots
    \/ scrapeImages
    \/ StopPressed
    \/ \E outcome \in ShotOutcomes : ShotAnswered(outcome)

ShotsSpec == ShotsInit /\ [][ShotsNext]_vars

\* every request is answered or fails
ShotsFairSpec == ShotsSpec /\ WF_vars(\E outcome \in ShotOutcomes : ShotAnswered(outcome))

\* a run during which Stop was pressed has ended
StoppedRunOver == shots.runs > 0 /\ shots.stopped /\ ~shots.isLoading

\* C36: cancellation of takeScreenshots and scrapeImages is cooperative and
\* told in the log: a run during which Stop was pressed logs 'Cancelled'
\* instead of 'Done!'.
C36_CancelledInsteadOfDone ==
    StoppedRunOver
       => /\ \E k \in 1..Len(shots.logs) : shots.logs[k] = "Cancelled"
          /\ \A k \in 1..Len(shots.logs) : shots.logs[k] # "Done!"

\* What does hold of Stop.  A run during which Stop was pressed never logs
\* 'Done!', and has a result for every URL it requested.
StoppedRunNotDone ==
    StoppedRunOver
       => /\ \A k \in 1..Len(shots.logs) : shots.logs[k] # "Done!"
          /\ Len(shots.results) = Len(shots.sent)
          /\ \A k \in 1..Len(shots.sent) : shots.results[k].url = shots.sent[k]

\* Once Stop was pressed the run requests no further URL.
StoppedRunSendsNothing ==
    [][shots.isLoading /\ shots.isCancelled => shots'.sent = shots.sent]_vars

\* A run ends: isLoading becomes false again.
ShotsRunEnds == shots.isLoading ~> ~shots.isLoading


(***************************************************************************)
(* api/get-output-dir: the listing of the output directory.  A directory   *)
(* is the sequence of its entries in readdir order; an entry is a regular  *)
(* file with its size or a directory with its entries.  path and modified  *)
(* of an OutputFile are left out.                                          *)
(***************************************************************************)
MaxNest == 2    \* deepest nesting of folders below the output directory
MaxSize == 2    \* largest size of a file

File(name, size) == [name |-> name, isDirectory |-> FALSE, size |-> size, entries |-> <<>>]

Folder(name, entries) == [name |-> name, isDirectory |-> TRUE, size |-> 0, entries |-> entries]

\* one entry or none
Maybe(S) == {<<>>} \cup { <<e>> : e \in S }

\* the directories with folders nested up to depth n: a .json file, an .html
\* file, a hidden file and a subfolder, each of them there or not
RECURSIVE Directories(_)
Directories(n) ==
    { a \o b \o c \o d :
        a \in Maybe({ File("a.json", s) : s \in 1..MaxSize }),
        b \in Maybe({ File("b.html", s) : s \in 1..MaxSize }),
        c \in Maybe({ File(".cache", 1) }),
        d \in IF n = 0 THEN {<<>>}
              ELSE Maybe({ Folder("sub", es) : es \in Directories(n - 1) }) }

\* entry.name.startsWith('.') (line 23)
IsHidden(name) == name = ".cache"

\* extname(entry.name) and the type it gives (lines 46-52)
TypeOf(name) ==
    IF name = "a.json" THEN "json"
    ELSE IF name = "b.html" THEN "html"
    ELSE "other"

RECURSIVE SumSizes(_)
\* subFiles.reduce((sum, f) => sum + f.size, 0) (line 33)
SumSizes(files) ==
    IF files = <<>> THEN 0 ELSE Head(files).size + SumSizes(Tail(files))

\* lines 39-44: the files of a folder, their names prefixed
Prefixed(name, subFiles) ==
    [k \in 1..Len(subFiles) |->
        [subFiles[k] EXCEPT !.name = name \o "/" \o subFiles[k].name]]

RECURSIVE getFilesRecursive(_)
\* getFilesRecursive (lines 13-68) on a directory that can be read
getFilesRecursive(entries) ==
    IF entries = <<>> THEN <<>>
    ELSE LET entry == Head(entries)
             rest  == getFilesRecursive(Tail(entries))
         IN  IF IsHidden(entry.name) THEN rest
             ELSE IF entry.isDirectory
             THEN LET subFiles == getFilesRecursive(entry.entries)
                  IN  <<[name |-> entry.name, size |-> SumSizes(subFiles), type |-> "folder"]>>
                         \o Prefixed(entry.name, subFiles) \o rest
             ELSE <<[name |-> entry.name, size |-> entry.size, type |-> TypeOf(entry.name)]>>
                     \o rest

besideListing ==
    <<body, pc, results, visited, queue, baseDomains, item, links, idx, response,
      enqueued, fetched, resolved, lastStep, web, self, peers, resolver, reader,
      isRunning, page, audit, shots>>

ListingInit ==
    /\ CrawlAtRest
    /\ reader = NoReader
    /\ isRunning = FALSE
    /\ page = NoPage
    /\ audit = NoAudit
    /\ shots = NoShots
    /\ listing \in { [NoListing EXCEPT !.tree = t] : t \in Directories(MaxNest) }

\* the handler (lines 70-95)
GetOutputDir ==
    /\ ~listing.answered
    /\ listing' = [listing EXCEPT
          !.files = Range(getFilesRecursive(listing.tree)),
          !.answered = TRUE]
    /\ UNCHANGED besideListing

ListingSpec == ListingInit /\ [][GetOutputDir]_vars

RECURSIVE FileSizes(_)
\* the sizes of the listed regular files of a directory, at any depth, each
\* file once
FileSizes(entries) ==
    IF entries = <<>> THEN 0
    ELSE LET entry == Head(entries)
         IN  (IF IsHidden(entry.name) THEN 0
              ELSE IF entry.isDirectory THEN FileSizes(entry.entries)
              ELSE entry.size)
             + FileSizes(Tail(entries))

RECURSIVE FolderSizes(_, _)
\* every folder of a directory, by the name the listing gives it, with the
\* sizes of its files
FolderSizes(entries, prefix) ==
    UNION { IF entries[k].isDirectory /\ ~IsHidden(entries[k].name)
            THEN {[name |-> prefix \o entries[k].name,
                   size |-> FileSizes(entries[k].entries)]}
                 \cup FolderSizes(entries[k].entries, prefix \o entries[k].name \o "/")
            ELSE {} : k \in 1..Len(entries) }

\* C38: the size reported for a folder is the sum of the sizes of the regular
\* files contained in it at any depth, each file counted once, for every
\* directory tree, nested subfolders included.
C38_FolderSize ==
    listing.answered
       => \A f \in listing.files :
             f.type = "folder"
                => [name |-> f.name, size |-> f.size] \in FolderSizes(listing.tree, "")

\* without nested subfolders the reported sizes are right
FlatFolderSize ==
    (listing.answered /\ \A f \in listing.files : f.name # "sub/sub")
       => \A f \in listing.files :
             f.type = "folder"
                => [name |-> f.name, size |-> f.size] \in FolderSizes(listing.tree, "")

====
